---- MODULE Spec2Model ----
(***************************************************************************)
(* A model of qap/temporal_qc.py (quality-assessment-protocol).            *)
(*                                                                         *)
(* Real numbers are exact rationals <<n, d>> (d > 0, lowest terms); the    *)
(* inputs of the model are integer-valued floats, on which the float       *)
(* operations of the code that the model follows exactly (interpolation by *)
(* quarters, 1.5 * IQR, products with the identity) are exact.  A value    *)
(* math.sqrt(q) is the record [root2 |-> q]: the non-negative root of q.   *)
(* A text file is the sequence of its lines, a line the sequence of its    *)
(* numeric fields; a path is the sequence of its characters.               *)
(* The file system maps the absolute path of a file to its lines; it has   *)
(* the directories "/", "/dev" and "/rel.rms" and the device /dev/null; a  *)
(* path through another directory, or one that names a directory, cannot   *)
(* be opened for writing.  The input file always exists.                   *)
(***************************************************************************)
EXTENDS Integers, Sequences, FiniteSets, TLC

(***************************************************************************)
(* Bounds of the model.                                                    *)
(***************************************************************************)
\* the number of lines of a transform file
MaxN == 3
\* the number of values of a values_list
MaxLen == 5

(***************************************************************************)
(* Exact rational arithmetic.                                              *)
(***************************************************************************)
Abs(x) == IF x < 0 THEN -x ELSE x

RECURSIVE GCD(_, _)
GCD(a, b) == IF b = 0 THEN a ELSE GCD(b, a % b)

\* the rational n/d (d # 0) in lowest terms with a positive denominator
Rat(n, d) ==
    LET g == GCD(Abs(n), Abs(d))
        s == IF d < 0 THEN -1 ELSE 1
    IN  <<(s * n) \div g, (s * d) \div g>>

RInt(k) == <<k, 1>>
RAdd(p, q) == Rat(p[1] * q[2] + q[1] * p[2], p[2] * q[2])
RSub(p, q) == Rat(p[1] * q[2] - q[1] * p[2], p[2] * q[2])
RMul(p, q) == Rat(p[1] * q[1], p[2] * q[2])
RDiv(p, q) == Rat(p[1] * q[2], p[2] * q[1])
RLt(p, q) == p[1] * q[2] < q[1] * p[2]
RAbs(p) == <<Abs(p[1]), p[2]>>

RECURSIVE IsPow2(_)
IsPow2(d) == IF d = 1 THEN TRUE ELSE IF d % 2 = 1 THEN FALSE ELSE IsPow2(d \div 2)

\* a rational that a binary float holds exactly (the model's magnitudes are small)
IsDyadic(p) == IsPow2(p[2])

(***************************************************************************)
(* Paths: os.path.basename, os.path.splitext, os.path.abspath and the      *)
(* substring test of fd_jenkinson.                                         *)
(***************************************************************************)
\* the current working directory, "/"
cwd == <<"/">>

\* the characters of 'rel.rms'
rel_rms == <<"r", "e", "l", ".", "r", "m", "s">>

\* haystack.startswith(needle) in the place of `needle in haystack`
Contains_AtStart(needle, haystack) ==
    /\ Len(needle) <= Len(haystack)
    /\ \A j \in 1..Len(needle) : haystack[j] = needle[j]

\* Python's `needle in haystack` on strings
Contains(needle, haystack) ==
    \E k \in 0..(Len(haystack) - Len(needle)) :
        \A j \in 1..Len(needle) : haystack[k + j] = needle[j]

\* the last index of character c in s, 0 when there is none
RFind(s, c) ==
    LET at == {k \in 1..Len(s) : s[k] = c}
    IN  IF at = {} THEN 0 ELSE CHOOSE k \in at : \A j \in at : j <= k

basename(p) == SubSeq(p, RFind(p, "/") + 1, Len(p))

\* os.path.splitext: <<root, ext>>; a name made of leading dots has no extension
splitext(p) ==
    LET sep == RFind(p, "/")
        dot == RFind(p, ".")
    IN  IF dot > sep /\ \E k \in (sep + 1)..(dot - 1) : p[k] # "."
        THEN <<SubSeq(p, 1, dot - 1), SubSeq(p, dot, Len(p))>>
        ELSE <<p, <<>> >>

\* op.abspath of a bare file name
abspath(name) == cwd \o name

\* lines 109-111: '%s_fdfile%s' % (fname, ext), made absolute
DefaultOutFile(in_path) ==
    LET fe == splitext(basename(in_path))
    IN  abspath(fe[1] \o <<"_", "f", "d", "f", "i", "l", "e">> \o fe[2])

(***************************************************************************)
(* numpy: genfromtxt, the padding of lines 124-127, reshape, matrices.     *)
(***************************************************************************)
\* genfromtxt(..., invalid_raise=False): the lines whose number of columns is not
\* that of the first line are skipped
genfromtxt_SkipInvalid(lines) ==
    LET c    == Len(lines[1])
        good == SelectSeq(lines, LAMBDA l : Len(l) = c)
        N    == Len(good)
    IN  IF N = 1
        THEN [ok |-> TRUE, shape |-> IF c = 1 THEN <<>> ELSE <<c>>, data |-> good[1]]
        ELSE IF c = 1
        THEN [ok |-> TRUE, shape |-> <<N>>, data |-> [k \in 1..N |-> good[k][1]]]
        ELSE [ok |-> TRUE, shape |-> <<N, c>>, data |-> good]

\* np.genfromtxt of a file whose lines hold integer-valued fields, at least one
\* line: lines with differing numbers of columns raise ValueError; one line
\* gives a 1-D array, one column a 1-D array, otherwise a 2-D array (N, c)
genfromtxt(lines) ==
    LET N == Len(lines)
        c == Len(lines[1])
    IN  IF \E k \in 1..N : Len(lines[k]) # c
        THEN [ok |-> FALSE, shape |-> <<>>, data |-> <<>>]
        ELSE IF N = 1
        THEN [ok |-> TRUE, shape |-> IF c = 1 THEN <<>> ELSE <<c>>, data |-> lines[1]]
        ELSE IF c = 1
        THEN [ok |-> TRUE, shape |-> <<N>>, data |-> [k \in 1..N |-> lines[k][1]]]
        ELSE [ok |-> TRUE, shape |-> <<N, c>>, data |-> lines]

\* line 127: the four values stored after each row
pad_values == <<0, 0, 0, 1>>

\* lines 125-127 on a 2-D array: pm[:, :c] = pm_ ; pm[:, c:] = [0, 0, 0, 1]
PadRows(arr) ==
    [shape |-> <<arr.shape[1], arr.shape[2] + 4>>,
     data  |-> [k \in 1..arr.shape[1] |-> arr.data[k] \o pad_values]]

\* the 4x4 matrix of the entries f[r, c], as a tuple of four rows
Mat4(f) ==
    << <<f[1, 1], f[1, 2], f[1, 3], f[1, 4]>>,
       <<f[2, 1], f[2, 2], f[2, 3], f[2, 4]>>,
       <<f[3, 1], f[3, 2], f[3, 3], f[3, 4]>>,
       <<f[4, 1], f[4, 2], f[4, 3], f[4, 4]>> >>

\* the reshape done column by column (Fortran order)
reshape44_ByColumn(v) == Mat4([r \in 1..4, c \in 1..4 |-> v[4 * (c - 1) + r]])

\* v.reshape(4, 4) of a vector of 16 values, row by row (C order)
reshape44(v) == Mat4([r \in 1..4, c \in 1..4 |-> v[4 * (r - 1) + c]])

\* np.eye(4)
eye4 == Mat4([r \in 1..4, c \in 1..4 |-> IF r = c THEN 1 ELSE 0])

\* the 3x3 matrix left of the integer 4x4 matrix m without row r and column c
Minor(m, r, c) ==
    LET rs == IF r = 1 THEN <<2, 3, 4>> ELSE IF r = 2 THEN <<1, 3, 4>>
              ELSE IF r = 3 THEN <<1, 2, 4>> ELSE <<1, 2, 3>>
        cs == IF c = 1 THEN <<2, 3, 4>> ELSE IF c = 2 THEN <<1, 3, 4>>
              ELSE IF c = 3 THEN <<1, 2, 4>> ELSE <<1, 2, 3>>
    IN  << <<m[rs[1]][cs[1]], m[rs[1]][cs[2]], m[rs[1]][cs[3]]>>,
           <<m[rs[2]][cs[1]], m[rs[2]][cs[2]], m[rs[2]][cs[3]]>>,
           <<m[rs[3]][cs[1]], m[rs[3]][cs[2]], m[rs[3]][cs[3]]>> >>

Det3(a) ==
      a[1][1] * (a[2][2] * a[3][3] - a[2][3] * a[3][2])
    - a[1][2] * (a[2][1] * a[3][3] - a[2][3] * a[3][1])
    + a[1][3] * (a[2][1] * a[3][2] - a[2][2] * a[3][1])

Sign(r, c) == IF (r + c) % 2 = 0 THEN 1 ELSE -1

Cofactor(m, r, c) == Sign(r, c) * Det3(Minor(m, r, c))

Det4(m) ==
    m[1][1] * Cofactor(m, 1, 1) + m[1][2] * Cofactor(m, 1, 2)
      + m[1][3] * Cofactor(m, 1, 3) + m[1][4] * Cofactor(m, 1, 4)

\* the exact inverse of an integer 4x4 matrix of non-zero determinant
ExactInverse(m) ==
    LET d == Det4(m)
    IN  Mat4([r \in 1..4, c \in 1..4 |-> Rat(Cofactor(m, c, r), d)])

(***************************************************************************)
(* The LU factorisation with partial pivoting behind numpy.linalg.inv      *)
(* (LAPACK gesv).  inv raises LinAlgError exactly when a computed pivot is *)
(* 0.0.  The elimination is followed in exact arithmetic for as long as    *)
(* the floats are exact (dyadic multipliers); once a multiplier is rounded *)
(* the later computed pivots are rounding residues.                        *)
(***************************************************************************)
\* the first row of j..4 that holds the largest magnitude of column j (idamax)
PivotRow(m, j) ==
    CHOOSE i \in j..4 :
        \A k \in j..4 :
            /\ ~RLt(RAbs(m[i][j]), RAbs(m[k][j]))
            /\ (RAbs(m[k][j]) = RAbs(m[i][j]) => i <= k)

SwapRows(m, a, b) ==
    LET row(r) == IF r = a THEN m[b] ELSE IF r = b THEN m[a] ELSE m[r]
    IN  <<row(1), row(2), row(3), row(4)>>

\* one step of the elimination on column j of the pivoted matrix
Eliminate(m, j) ==
    Mat4([r \in 1..4, c \in 1..4 |->
            IF r <= j \/ c <= j THEN m[r][c]
            ELSE RSub(m[r][c], RMul(RDiv(m[r][j], m[j][j]), m[j][c]))])

\* "zero_pivot": a pivot is exactly 0.0; "rounded": a multiplier was rounded and
\* took part in an update; "regular": every pivot is non-zero and exact
RECURSIVE LUStatus(_, _)
LUStatus(m, j) ==
    IF j > 4 THEN "regular"
    ELSE LET sw == SwapRows(m, j, PivotRow(m, j))
         IN  IF sw[j][j][1] = 0 THEN "zero_pivot"
             ELSE IF \E r \in (j + 1)..4, c \in (j + 1)..4 :
                        /\ ~IsDyadic(RDiv(sw[r][j], sw[j][j]))
                        /\ sw[j][c][1] # 0
             THEN "rounded"
             ELSE LUStatus(Eliminate(sw, j), j + 1)

ToRat(m) == Mat4([r \in 1..4, c \in 1..4 |-> RInt(m[r][c])])

\* np.matrix.I of an integer-valued 4x4 matrix.  A singular matrix raises
\* LinAlgError when the zero pivot is computed exactly; when rounding precedes
\* it, the computed pivot is a residue that is 0.0 or not with the arithmetic of
\* the numpy build (residue_zero), and a non-zero residue yields a matrix of
\* huge values ("garbage") without any error.
MatrixI(m, residue_zero) ==
    IF Det4(m) # 0
    THEN [kind |-> "matrix", m |-> ExactInverse(m)]
    ELSE IF LUStatus(ToRat(m), 1) = "zero_pivot" \/ residue_zero
    THEN [kind |-> "LinAlgError", m |-> <<>>]
    ELSE [kind |-> "garbage", m |-> <<>>]

(***************************************************************************)
(* Jenkinson's framewise displacement, lines 141-146.                      *)
(***************************************************************************)
\* math.sqrt(q)
Sqrt(q) == [kind |-> "sqrt", of |-> q]

\* the float 0.0 (the list X starts as [0], which np.array makes 0.0)
Zero == Sqrt(RInt(0))

\* what line 145 yields from a garbage inverse: some huge float, no error
Garbage == [kind |-> "garbage", of |-> RInt(0)]

\* line 141 without the identity taken off
MatrixM_NoIdentity(T_rb, inverse) ==
    Mat4([r \in 1..4, c \in 1..4 |->
        RAdd(RAdd(RMul(RInt(T_rb[r][1]), inverse[1][c]),
                  RMul(RInt(T_rb[r][2]), inverse[2][c])),
             RAdd(RMul(RInt(T_rb[r][3]), inverse[3][c]),
                  RMul(RInt(T_rb[r][4]), inverse[4][c])))])

\* line 141: M = np.dot(T_rb, T_rb_prev.I) - np.eye(4)
MatrixM(T_rb, inverse) ==
    Mat4([r \in 1..4, c \in 1..4 |->
        RSub(RAdd(RAdd(RMul(RInt(T_rb[r][1]), inverse[1][c]),
                       RMul(RInt(T_rb[r][2]), inverse[2][c])),
                  RAdd(RMul(RInt(T_rb[r][3]), inverse[3][c]),
                       RMul(RInt(T_rb[r][4]), inverse[4][c]))),
             RInt(eye4[r][c]))])

RSq(q) == RMul(q, q)
RSum3(f) == RAdd(RAdd(f[1], f[2]), f[3])

\* np.trace(np.dot(A.T, A)) with A = M[0:3, 0:3]
TraceATA(M) ==
    RSum3(<<RSum3(<<RSq(M[1][1]), RSq(M[2][1]), RSq(M[3][1])>>),
            RSum3(<<RSq(M[1][2]), RSq(M[2][2]), RSq(M[3][2])>>),
            RSum3(<<RSq(M[1][3]), RSq(M[2][3]), RSq(M[3][3])>>)>>)

\* np.dot(b.T, b) with b = M[0:3, 3]
DotBB(M) == RSum3(<<RSq(M[1][4]), RSq(M[2][4]), RSq(M[3][4])>>)

\* a Python number: an int or a float, with its value
PyInt(k) == [type |-> "int", q |-> RInt(k)]
PyFloat(k) == [type |-> "float", q |-> RInt(k)]

\* rmax * rmax / 5 of line 146: the quotient of two ints is an int, rounded
\* down (the module is Python 2 and does not import division)
Fifth(r) ==
    IF r.type = "int" THEN RInt((r.q[1] * r.q[1]) \div 5)
    ELSE RDiv(RMul(r.q, r.q), RInt(5))

\* lines 145-146: (rmax * rmax / 5) * trace + dot, under the square root
FD_J(M, r) ==
    Sqrt(RAdd(RMul(Fifth(r), TraceATA(M)), DotBB(M)))

(***************************************************************************)
(* The inputs of the model.                                                *)
(***************************************************************************)
\* rows of a 3dvolreg matrix file (12 values, row by row): the identity, a
\* translation, a quarter turn about z, a singular matrix whose elimination
\* is exact, a singular matrix whose elimination rounds
RowIdentity    == <<1, 0, 0, 0,  0, 1, 0, 0,  0, 0, 1, 0>>
RowTranslation == <<1, 0, 0, 3,  0, 1, 0, 0,  0, 0, 1, 4>>
RowQuarterTurn == <<0, -1, 0, 0,  1, 0, 0, 0,  0, 0, 1, 2>>
RowZero        == <<0, 0, 0, 0,  0, 0, 0, 0,  0, 0, 0, 0>>
RowSingular    == <<1, 2, 3, 0,  4, 5, 6, 0,  7, 8, 9, 0>>
\* a row of 11 values
RowShort       == <<1, 0, 0, 0,  0, 1, 0, 0,  0, 0, 1>>

Rows12 == {RowIdentity, RowTranslation, RowQuarterTurn, RowZero, RowSingular}
RowChoices == Rows12 \cup {RowShort}

SeqsUpTo(S, n) == UNION {[1..k -> S] : k \in 1..n}

TransformFiles == SeqsUpTo(RowChoices, MaxN)

\* an MCFLIRT rel.rms file: one displacement per line
RelRmsFile == << <<0>>, <<3>>, <<1>> >>

\* "a.1D", "m_rel.rms", "rel.rms/a" and "rel_rms.1D"
PathPlain   == <<"a", ".", "1", "D">>
PathRelRms  == <<"m", "_", "r", "e", "l", ".", "r", "m", "s">>
PathRelDir  == <<"r", "e", "l", ".", "r", "m", "s", "/", "a">>
PathNearRel == <<"r", "e", "l", "_", "r", "m", "s", ".", "1", "D">>

\* an explicit out_file, "o.1D" in the working directory
PathOut == <<"o", ".", "1", "D">>

\* an out_file in a directory that does not exist, "/n/o.1D"
PathNoDir == <<"/", "n", "/", "o", ".", "1", "D">>

\* out_file=None
None == <<>>

FdInputs ==
    {[path |-> PathPlain, lines |-> f] : f \in TransformFiles}
    \cup {[path |-> PathRelRms, lines |-> RelRmsFile],
          [path |-> PathRelRms, lines |-> <<RowIdentity, RowTranslation>>],
          [path |-> PathRelDir, lines |-> <<RowIdentity, RowShort>>],
          [path |-> PathNearRel, lines |-> <<RowIdentity, RowTranslation>>]}

\* an out_file that names the input file itself, by the path given and by its
\* absolute path, for an input that is forwarded
SameFilePaths(path) ==
    IF Contains(rel_rms, path) THEN {path, cwd \o path} ELSE {}

\* line 70: rmax=80.
rmax_default == 80

\* rmax: the default 80.0, the float 3.0 and the int 3
Rmaxes == {PyFloat(rmax_default), PyFloat(3), PyInt(3)}

(***************************************************************************)
(* fd_jenkinson as a state machine.                                        *)
(***************************************************************************)
VARIABLES
    pc,            \* the place of the call
    fs,            \* the file system: path -> lines
    in_file, rmax, out_file_arg, out_array,    \* the arguments
    residue_zero,  \* the numpy build: a rounded zero pivot comes out as 0.0
    out_file, pm_, pm, T_rb_prev, T_rb, flag, X, i,    \* the locals
    ret,           \* the returned value
    exc,           \* the exception raised, "" for none
    calls,         \* the number of calls made
    first          \* what the first call left, once a second is made

fdvars == <<pc, fs, in_file, rmax, out_file_arg, out_array, residue_zero,
            out_file, pm_, pm, T_rb_prev, T_rb, flag, X, i, ret, exc, calls, first>>

\* calculate_percent_outliers: its place, argument, locals, result and exception
VARIABLES
    po_pc, values_list, sorted_values, third_qr, first_qr, IQR,
    third_qr_threshold, first_qr_threshold, high_outliers, low_outliers,
    total_outliers, percent_outliers, po_ret, po_exc

povars == <<po_pc, values_list, sorted_values, third_qr, first_qr, IQR,
            third_qr_threshold, first_qr_threshold, high_outliers, low_outliers,
            total_outliers, percent_outliers, po_ret, po_exc>>

\* pass_floats: its place, argument, locals and result
VARIABLES
    pf_pc, output_string, pf_lines, pf_values, pf_l, pf_ret

pfvars == <<pf_pc, output_string, pf_lines, pf_values, pf_l, pf_ret>>

\* the functional image and its mask, the arguments of global_correlation
VARIABLES
    func_reorient, func_mask

imvars == <<func_reorient, func_mask>>

\* global_correlation: its place, locals and result
VARIABLES
    gc_pc, zero_variance_func, list_of_ts, demeaned_normed, volume_list,
    avg_ts, gcor, gc_ret

gcvars == <<gc_pc, zero_variance_func, list_of_ts, demeaned_normed, volume_list,
            avg_ts, gcor, gc_ret>>

\* get_temporal_std_map: its place, locals and result
VARIABLES
    sm_pc, func_data, temporal_std_map, sm_ret

smvars == <<sm_pc, func_data, temporal_std_map, sm_ret>>

\* calc_estimated_csf_nuisance: its place, locals, result and exception; its
\* argument is temporal_std_map
VARIABLES
    nu_pc, all_tstd, all_tstd_sorted, top_2, top_2_std, cutoff,
    estimated_nuisance_mask, nuisance_stds, nuisance_mean_std, nu_ret, nu_exc

nuvars == <<nu_pc, all_tstd, all_tstd_sorted, top_2, top_2_std, cutoff,
            estimated_nuisance_mask, nuisance_stds, nuisance_mean_std, nu_ret,
            nu_exc>>

\* sfs_timeseries: its place, argument func_mean, locals, result and
\* exception; its other arguments are func_mask and temporal_std_map
VARIABLES
    sf_pc, func_mean, masked_func_mean, total_func_mean, masked_tstd,
    sf_nuisance_mean_std, arg_tuples, sfs_voxels, sf_ret, sf_exc

sfvars == <<sf_pc, func_mean, masked_func_mean, total_func_mean, masked_tstd,
            sf_nuisance_mean_std, arg_tuples, sfs_voxels, sf_ret, sf_exc>>

\* parse_raw_data_list: its place, arguments, locals (ids_bound tells whether
\* site_id, subject_id, session_id and scan_id are assigned), result and exception
VARIABLES
    pl_pc, filepath_list, site_folder, inclusion_list, s3_bucket, sub_dict,
    inclusion, pl_n, ids_bound, site_id, subject_id, pl_session_id, scan_id,
    pl_ret, pl_exc

plvars == <<pl_pc, filepath_list, site_folder, inclusion_list, s3_bucket, sub_dict,
            inclusion, pl_n, ids_bound, site_id, subject_id, pl_session_id,
            scan_id, pl_ret, pl_exc>>

\* dl_subj_from_s3: its place, argument subj_idx, the configuration and the
\* dictionary it loads, locals, the download it asks for, result and exception
VARIABLES
    dl_pc, subj_idx, bucket_prefix, local_prefix, s3_dict, sd_keys, subj_key,
    dl_sub_dict, s3_dl, local_dl, downloads, dl_ret, dl_exc

dlvars == <<dl_pc, subj_idx, bucket_prefix, local_prefix, s3_dict, sd_keys,
            subj_key, dl_sub_dict, s3_dl, local_dl, downloads, dl_ret, dl_exc>>

\* pull_S3_sublist: its place, arguments yaml_outpath and img_type, the
\* file names listed from the bucket, the place in the list, locals
\* ("unbound" before the first assignment), the YAML file written (empty
\* before), result and exception
VARIABLES
    ps_pc, yaml_outpath, img_type, s3_list, ps_n, ps_s3_dict, subkey_type,
    resource_dict, yaml_file, ps_ret, ps_exc

psvars == <<ps_pc, yaml_outpath, img_type, s3_list, ps_n, ps_s3_dict, subkey_type,
            resource_dict, yaml_file, ps_ret, ps_exc>>

\* populate_custom_data_dict: the participant data dictionary that the calls
\* update, the arguments of the calls made so far, and the dictionary as it
\* was before the last call
VARIABLES data_dict, cd_calls, cd_before

cdvars == <<data_dict, cd_calls, cd_before>>

vars == <<fdvars, povars, pfvars, imvars, gcvars, smvars, nuvars, sfvars, plvars, dlvars, psvars, cdvars>>

\* the variables of the other functions
NotFd == <<povars, pfvars, imvars, gcvars, smvars, nuvars, sfvars, plvars, dlvars, psvars, cdvars>>
NotPo == <<fdvars, pfvars, imvars, gcvars, smvars, nuvars, sfvars, plvars, dlvars, psvars, cdvars>>
NotPf == <<fdvars, povars, imvars, gcvars, smvars, nuvars, sfvars, plvars, dlvars, psvars, cdvars>>
NotGc == <<fdvars, povars, pfvars, smvars, nuvars, sfvars, plvars, dlvars, psvars, cdvars>>
NotSm == <<fdvars, povars, pfvars, gcvars, nuvars, sfvars, plvars, dlvars, psvars, cdvars>>
NotNu == <<fdvars, povars, pfvars, imvars, gcvars, smvars, sfvars, plvars, dlvars, psvars, cdvars>>
NotSf == <<fdvars, povars, pfvars, gcvars, nuvars, plvars, dlvars, psvars, cdvars>>
NotPl == <<fdvars, povars, pfvars, imvars, gcvars, smvars, nuvars, sfvars, dlvars, psvars, cdvars>>
NotDl == <<fdvars, povars, pfvars, imvars, gcvars, smvars, nuvars, sfvars, plvars, psvars, cdvars>>
NotPs == <<fdvars, povars, pfvars, imvars, gcvars, smvars, nuvars, sfvars, plvars, dlvars, cdvars>>
NotCd == <<fdvars, povars, pfvars, imvars, gcvars, smvars, nuvars, sfvars, plvars, dlvars, psvars>>

\* no call of calculate_percent_outliers is in progress
PoIdle ==
    /\ po_pc = "idle"
    /\ values_list = <<>>
    /\ sorted_values = <<>>
    /\ third_qr = RInt(0)
    /\ first_qr = RInt(0)
    /\ IQR = RInt(0)
    /\ third_qr_threshold = RInt(0)
    /\ first_qr_threshold = RInt(0)
    /\ high_outliers = <<>>
    /\ low_outliers = <<>>
    /\ total_outliers = <<>>
    /\ percent_outliers = RInt(0)
    /\ po_ret = <<>>
    /\ po_exc = ""

\* no call of pass_floats is in progress
PfIdle ==
    /\ pf_pc = "idle"
    /\ output_string = <<>>
    /\ pf_lines = <<>>
    /\ pf_values = <<>>
    /\ pf_l = 0
    /\ pf_ret = <<>>

\* no image is held
NoImage == [shape |-> <<>>, data |-> <<>>]

ImIdle ==
    /\ func_reorient = NoImage
    /\ func_mask = NoImage

\* a real number: a sum of terms <<r, c>>, each the rational c # 0 times the
\* square root of the square-free r, one term for each r; or nan
Real(terms) == [nan |-> FALSE, terms |-> terms]
np_nan == [nan |-> TRUE, terms |-> {}]

\* no call of global_correlation is in progress
GcIdle ==
    /\ gc_pc = "idle"
    /\ zero_variance_func = <<>>
    /\ list_of_ts = <<>>
    /\ demeaned_normed = <<>>
    /\ volume_list = <<>>
    /\ avg_ts = <<>>
    /\ gcor = Real({})
    /\ gc_ret = <<>>

\* no call of get_temporal_std_map is in progress
SmIdle ==
    /\ sm_pc = "idle"
    /\ func_data = NoImage
    /\ temporal_std_map = NoImage
    /\ sm_ret = <<>>

\* the locals of calc_estimated_csf_nuisance before they are assigned
NuLocalsUnset ==
    /\ all_tstd = <<>>
    /\ all_tstd_sorted = <<>>
    /\ top_2 = RInt(0)
    /\ top_2_std = <<>>
    /\ cutoff = Real({})
    /\ estimated_nuisance_mask = NoImage
    /\ nuisance_stds = NoImage
    /\ nuisance_mean_std = Real({})
    /\ nu_ret = <<>>
    /\ nu_exc = ""

\* no call of calc_estimated_csf_nuisance is in progress
NuIdle == nu_pc = "idle" /\ NuLocalsUnset

\* the locals of sfs_timeseries before they are assigned
SfLocalsUnset ==
    /\ masked_func_mean = <<>>
    /\ total_func_mean = Real({})
    /\ masked_tstd = <<>>
    /\ sf_nuisance_mean_std = Real({})
    /\ arg_tuples = <<>>
    /\ sfs_voxels = <<>>
    /\ sf_ret = <<>>
    /\ sf_exc = ""

\* no call of sfs_timeseries is in progress
SfIdle == sf_pc = "idle" /\ func_mean = NoImage /\ SfLocalsUnset

\* the locals of parse_raw_data_list before they are assigned
PlLocalsUnset ==
    /\ sub_dict = <<>>
    /\ inclusion = "unbound"
    /\ pl_n = 0
    /\ ids_bound = FALSE
    /\ site_id = <<>>
    /\ subject_id = <<>>
    /\ pl_session_id = <<>>
    /\ scan_id = <<>>
    /\ pl_ret = <<>>
    /\ pl_exc = ""

\* no call of parse_raw_data_list is in progress
PlIdle ==
    /\ pl_pc = "idle"
    /\ filepath_list = <<>>
    /\ site_folder = <<>>
    /\ inclusion_list = <<>>
    /\ s3_bucket = FALSE
    /\ PlLocalsUnset

\* the locals of dl_subj_from_s3 before they are assigned
DlLocalsUnset ==
    /\ sd_keys = <<>>
    /\ subj_key = <<>>
    /\ dl_sub_dict = <<>>
    /\ s3_dl = <<>>
    /\ local_dl = <<>>
    /\ downloads = <<>>
    /\ dl_ret = <<>>
    /\ dl_exc = ""

\* no call of dl_subj_from_s3 is in progress
DlIdle ==
    /\ dl_pc = "idle"
    /\ subj_idx = 0
    /\ bucket_prefix = <<>>
    /\ local_prefix = <<>>
    /\ s3_dict = <<>>
    /\ DlLocalsUnset

\* the locals of pull_S3_sublist before they are assigned
PsLocalsUnset ==
    /\ ps_n = 0
    /\ ps_s3_dict = <<>>
    /\ subkey_type = "unbound"
    /\ resource_dict = "unbound"
    /\ yaml_file = <<>>
    /\ ps_ret = <<>>
    /\ ps_exc = ""

\* no call of pull_S3_sublist is in progress
PsIdle ==
    /\ ps_pc = "idle"
    /\ yaml_outpath = <<>>
    /\ img_type = <<>>
    /\ s3_list = <<>>
    /\ PsLocalsUnset

\* populate_custom_data_dict has not been called
CdIdle ==
    /\ data_dict = <<>>
    /\ cd_calls = <<>>
    /\ cd_before = <<>>

NoArray == [shape |-> <<>>, data |-> <<>>]
NoReturn == [kind |-> "none", path |-> <<>>, array |-> <<>>]
NoFirst == [ret |-> NoReturn, exc |-> "", written |-> <<>>]

\* qap.qap_utils.raise_smart_exception: raises Exception
raise_smart_exception == "Exception"

\* the first place at or after k where sub starts in s, 0 for none
RECURSIVE FindSub(_, _, _)
FindSub(s, sub, k) ==
    IF k + Len(sub) - 1 > Len(s) THEN 0
    ELSE IF SubSeq(s, k, k + Len(sub) - 1) = sub THEN k
    ELSE FindSub(s, sub, k + 1)

\* s.split(sep) for a non-empty sep: the pieces of s between the
\* occurrences of sep, taken from the left
RECURSIVE split(_, _)
split(s, sep) ==
    LET k == FindSub(s, sep, 1)
    IN  IF k = 0 THEN <<s>>
        ELSE <<SubSeq(s, 1, k - 1)>> \o split(SubSeq(s, k + Len(sep), Len(s)), sep)

\* the directories of the file system: "/", "/dev" and "/rel.rms"
Directories == {<<"/">>, <<"/", "d", "e", "v">>, <<"/", "r", "e", "l", ".", "r", "m", "s">>}

\* the device files: "/dev/null"
Devices == {<<"/", "d", "e", "v", "/", "n", "u", "l", "l">>}

\* no directory, no file
NoPath == <<>>

\* the entry name of a directory
Child(dir, name) == IF dir = <<"/">> THEN dir \o name ELSE dir \o <<"/">> \o name

\* the directory above
ParentDir(dir) ==
    IF RFind(dir, "/") <= 1 THEN <<"/">> ELSE SubSeq(dir, 1, RFind(dir, "/") - 1)

\* the directory reached from dir through the components, NoPath when one
\* of them is not a directory
RECURSIVE Walk(_, _)
Walk(dir, comps) ==
    IF comps = <<>> THEN dir
    ELSE IF Head(comps) \in {<<>>, <<".">>} THEN Walk(dir, Tail(comps))
    ELSE IF Head(comps) = <<".", ".">> THEN Walk(ParentDir(dir), Tail(comps))
    ELSE IF Child(dir, Head(comps)) \in Directories
    THEN Walk(Child(dir, Head(comps)), Tail(comps))
    ELSE NoPath

\* the absolute path of the file a path names, from the working directory
\* when it is relative; NoPath when the path is empty, names a directory or
\* passes through what is not a directory
FilePath(path) ==
    IF path = <<>> THEN NoPath
    ELSE LET comps == split(path, <<"/">>)
             name == comps[Len(comps)]
             dir == Walk(IF path[1] = "/" THEN <<"/">> ELSE cwd,
                         SubSeq(comps, 1, Len(comps) - 1))
         IN  IF \/ name \in {<<>>, <<".">>, <<".", ".">>}
                \/ dir = NoPath
                \/ Child(dir, name) \in Directories
             THEN NoPath
             ELSE Child(dir, name)

\* open(path, "w") succeeds: the path names a file, or a place for one
CanWrite(path) == FilePath(path) # NoPath

\* the file exists
Exists(files, path) == FilePath(path) \in DOMAIN files

\* the lines of the file
ReadFile(files, path) == files[FilePath(path)]

\* what is written to a device is not kept
WriteFile(files, path, lines) ==
    IF FilePath(path) \in Devices THEN files
    ELSE [p \in (DOMAIN files) \cup {FilePath(path)} |->
             IF p = FilePath(path) THEN lines ELSE files[p]]

\* np.savetxt(out_file, np.array(X)): one value per line
savetxt(files, path, values) ==
    WriteFile(files, path, [k \in 1..Len(values) |-> <<values[k]>>])

\* shutil.copyfile
copyfile(files, src, dst) == WriteFile(files, dst, ReadFile(files, src))

\* shutil._samefile: the two paths name one file
samefile(src, dst) == FilePath(src) # NoPath /\ FilePath(src) = FilePath(dst)

FdLocalsUnset ==
    /\ out_file = None
    /\ pm_ = NoArray
    /\ pm = NoArray
    /\ T_rb_prev = <<>>
    /\ T_rb = <<>>
    /\ flag = 0
    /\ X = <<>>
    /\ i = 0
    /\ ret = NoReturn
    /\ exc = ""
    /\ calls = 1
    /\ first = NoFirst

\* no call of fd_jenkinson is in progress
FdIdle ==
    /\ pc = "idle"
    /\ fs = <<>>
    /\ in_file = None
    /\ rmax = PyFloat(rmax_default)
    /\ out_file_arg = None
    /\ out_array = FALSE
    /\ residue_zero = FALSE
    /\ FdLocalsUnset

FdInit ==
    /\ CdIdle
    /\ PsIdle
    /\ DlIdle
    /\ PlIdle
    /\ SfIdle
    /\ pc = "call"
    /\ \E inp \in FdInputs :
          /\ in_file = inp.path
          /\ fs = [p \in {FilePath(inp.path)} |-> inp.lines]
    /\ rmax \in Rmaxes
    /\ out_file_arg \in {None, PathOut, PathNoDir} \cup SameFilePaths(in_file)
    /\ out_array \in BOOLEAN
    /\ residue_zero \in BOOLEAN
    /\ FdLocalsUnset
    /\ PoIdle
    /\ PfIdle
    /\ ImIdle
    /\ GcIdle
    /\ SmIdle
    /\ NuIdle

\* a list that outlives the call (a mutable default, a module-level list)
NewX_Kept == IF X = <<>> THEN <<Zero>> ELSE X

\* line 133: X = [0], a new list in every call
NewX == <<Zero>>

\* the assignment moved into the else branch of line 140
StorePrev_SkipFirst(T) == IF flag = 0 THEN T_rb_prev ELSE T

\* line 149: T_rb_prev = T_rb, at the end of every iteration
StorePrev(T) == T

\* lines 109-111
FdEnter ==
    /\ pc = "call"
    /\ out_file' = IF out_file_arg = None THEN DefaultOutFile(in_file)
                   ELSE out_file_arg
    /\ pc' = "check"
    /\ UNCHANGED <<fs, in_file, rmax, out_file_arg, out_array, residue_zero,
                   pm_, pm, T_rb_prev, T_rb, flag, X, i, ret, exc, calls, first>>
    /\ UNCHANGED NotFd

\* lines 115-117: copyfile raises shutil.Error when out_file names the file
\* in_file names, and IOError when out_file cannot be opened
FdForward ==
    /\ pc = "check"
    /\ Contains(rel_rms, in_file)
    /\ IF samefile(in_file, out_file)
       THEN /\ exc' = "shutil.Error"
            /\ pc' = "raised"
            /\ UNCHANGED <<fs, ret>>
       ELSE IF CanWrite(out_file)
       THEN /\ fs' = copyfile(fs, in_file, out_file)
            /\ ret' = [kind |-> "path", path |-> out_file, array |-> <<>>]
            /\ pc' = "done"
            /\ exc' = exc
       ELSE /\ exc' = "IOError"
            /\ pc' = "raised"
            /\ UNCHANGED <<fs, ret>>
    /\ UNCHANGED <<in_file, rmax, out_file_arg, out_array, residue_zero,
                   out_file, pm_, pm, T_rb_prev, T_rb, flag, X, i, calls, first>>
    /\ UNCHANGED NotFd

\* lines 119-122
FdGenfromtxt ==
    /\ pc = "check"
    /\ ~Contains(rel_rms, in_file)
    /\ LET a == genfromtxt(ReadFile(fs, in_file))
       IN  IF a.ok
           THEN /\ pm_' = [shape |-> a.shape, data |-> a.data]
                /\ pc' = "pad"
                /\ exc' = exc
           ELSE /\ pm_' = pm_
                /\ pc' = "raised"
                /\ exc' = raise_smart_exception
    /\ UNCHANGED <<fs, in_file, rmax, out_file_arg, out_array, residue_zero,
                   out_file, pm, T_rb_prev, T_rb, flag, X, i, ret, calls, first>>
    /\ UNCHANGED NotFd

\* lines 124-133: pm_.shape[1] raises IndexError on an array of fewer than 2 axes
FdPad ==
    /\ pc = "pad"
    /\ IF Len(pm_.shape) < 2
       THEN /\ exc' = "IndexError"
            /\ pc' = "raised"
            /\ UNCHANGED <<pm, T_rb_prev, flag, X, i>>
       ELSE /\ pm' = PadRows(pm_)
            /\ T_rb_prev' = eye4
            /\ flag' = 0
            /\ X' = NewX
            /\ i' = 0
            /\ pc' = "loop"
            /\ exc' = exc
    /\ UNCHANGED <<fs, in_file, rmax, out_file_arg, out_array, residue_zero,
                   out_file, pm_, T_rb, ret, calls, first>>
    /\ UNCHANGED NotFd

\* lines 134-149, one iteration: reshape raises ValueError unless the padded row
\* holds 16 values, T_rb_prev.I raises LinAlgError
FdLoop ==
    /\ pc = "loop"
    /\ i < pm.shape[1]
    /\ IF pm.shape[2] # 16
       THEN /\ exc' = "ValueError"
            /\ pc' = "raised"
            /\ UNCHANGED <<T_rb_prev, T_rb, flag, X, i>>
       ELSE LET T == reshape44(pm.data[i + 1])
                inverse == MatrixI(T_rb_prev, residue_zero)
            IN  /\ T_rb' = T
                /\ IF flag = 0
                   THEN /\ flag' = 1
                        /\ T_rb_prev' = StorePrev(T)
                        /\ i' = i + 1
                        /\ UNCHANGED <<X, exc, pc>>
                   ELSE IF inverse.kind = "LinAlgError"
                   THEN /\ exc' = "LinAlgError"
                        /\ pc' = "raised"
                        /\ UNCHANGED <<T_rb_prev, flag, X, i>>
                   ELSE /\ X' = Append(X, IF inverse.kind = "garbage" THEN Garbage
                                          ELSE FD_J(MatrixM(T, inverse.m), rmax))
                        /\ T_rb_prev' = StorePrev(T)
                        /\ i' = i + 1
                        /\ UNCHANGED <<flag, exc, pc>>
    /\ UNCHANGED <<fs, in_file, rmax, out_file_arg, out_array, residue_zero,
                   out_file, pm_, pm, ret, calls, first>>
    /\ UNCHANGED NotFd

\* lines 151-154: a failure of np.savetxt is raised as Exception
FdSave ==
    /\ pc = "loop"
    /\ i = pm.shape[1]
    /\ IF CanWrite(out_file)
       THEN /\ fs' = savetxt(fs, out_file, X)
            /\ pc' = "return"
            /\ exc' = exc
       ELSE /\ exc' = raise_smart_exception
            /\ pc' = "raised"
            /\ fs' = fs
    /\ UNCHANGED <<in_file, rmax, out_file_arg, out_array, residue_zero,
                   out_file, pm_, pm, T_rb_prev, T_rb, flag, X, i, ret, calls, first>>
    /\ UNCHANGED NotFd

\* lines 156-159
FdReturn ==
    /\ pc = "return"
    /\ ret' = IF out_array THEN [kind |-> "array", path |-> <<>>, array |-> X]
              ELSE [kind |-> "path", path |-> out_file, array |-> <<>>]
    /\ pc' = "done"
    /\ UNCHANGED <<fs, in_file, rmax, out_file_arg, out_array, residue_zero,
                   out_file, pm_, pm, T_rb_prev, T_rb, flag, X, i, exc, calls, first>>
    /\ UNCHANGED NotFd

\* a second call with the same arguments, on the file system the first left
FdCallAgain ==
    /\ pc \in {"done", "raised"}
    /\ calls = 1
    /\ first' = [ret |-> ret, exc |-> exc,
                 written |-> IF Exists(fs, out_file) THEN ReadFile(fs, out_file) ELSE <<>>]
    /\ calls' = 2
    /\ ret' = NoReturn
    /\ exc' = ""
    /\ pc' = "call"
    /\ UNCHANGED <<fs, in_file, rmax, out_file_arg, out_array, residue_zero,
                   out_file, pm_, pm, T_rb_prev, T_rb, flag, X, i>>
    /\ UNCHANGED NotFd

FdNext ==
    \/ FdEnter
    \/ FdForward
    \/ FdGenfromtxt
    \/ FdPad
    \/ FdLoop
    \/ FdSave
    \/ FdReturn

Spec == FdInit /\ [][FdNext]_vars

SpecTwice == FdInit /\ [][FdNext \/ FdCallAgain]_vars

(***************************************************************************)
(* calculate_percent_outliers, lines 28-67.                                *)
(***************************************************************************)
\* the values of a values_list: integer-valued floats
Vals == {-1, 0, 1, 4}

\* a vector with one far value
ScalarVector == <<1, 2, 3, 4, 5, 100>>

ValueLists == {<<>>} \cup SeqsUpTo(Vals, MaxLen) \cup {ScalarVector}

\* s with v put before the first element greater than v
RECURSIVE Insert(_, _)
Insert(s, v) ==
    IF s = <<>> THEN <<v>>
    ELSE IF v < Head(s) THEN <<v>> \o s
    ELSE <<Head(s)>> \o Insert(Tail(s), v)

\* sorted(values_list): ascending
RECURSIVE sorted(_)
sorted(s) == IF s = <<>> THEN <<>> ELSE Insert(sorted(SubSeq(s, 1, Len(s) - 1)), s[Len(s)])

\* np.percentile with interpolation='lower': the value at the floor of the position
percentile_Lower(a, q) ==
    LET n   == Len(a)
        pos == Rat((n - 1) * q, 100)
        lo  == pos[1] \div pos[2]
    IN  RInt(a[lo + 1])

\* np.percentile(a, q) of a non-empty ascending list: linear interpolation between
\* the two values around position (n - 1) * q / 100
percentile(a, q) ==
    LET n    == Len(a)
        pos  == Rat((n - 1) * q, 100)
        lo   == pos[1] \div pos[2]
        hi   == IF lo + 1 < n THEN lo + 1 ELSE n - 1
        frac == RSub(pos, RInt(lo))
    IN  RAdd(RInt(a[lo + 1]), RMul(RSub(RInt(a[hi + 1]), RInt(a[lo + 1])), frac))

\* the percentiles asked for in the order [25, 75]
Quartiles_Swapped(a) == <<percentile(a, 25), percentile(a, 75)>>

\* line 47: third_qr, first_qr = np.percentile(sorted_values, [75, 25])
Quartiles(a) == <<percentile(a, 75), percentile(a, 25)>>

\* 1.5 * IQR
OneAndAHalf(q) == RMul(Rat(3, 2), q)

\* the comparison of line 55 made >=
HighOutliers_OrEqual(s, threshold) ==
    LET above(val) == ~RLt(RInt(val), threshold)
    IN  SelectSeq(s, above)

\* lines 54-55: [val for val in sorted_values if val > third_qr_threshold]
HighOutliers(s, threshold) ==
    LET above(val) == RLt(threshold, RInt(val))
    IN  SelectSeq(s, above)

\* the comparison of line 57 made >
LowOutliers_Greater(s, threshold) ==
    LET above(val) == RLt(threshold, RInt(val))
    IN  SelectSeq(s, above)

\* lines 56-57: [val for val in sorted_values if val < first_qr_threshold]
LowOutliers(s, threshold) ==
    LET below(val) == RLt(RInt(val), threshold)
    IN  SelectSeq(s, below)

\* lines 43-67 on a non-empty list, as one function: <<percent_outliers, IQR>>
calculate_percent_outliers(values) ==
    LET s    == sorted(values)
        q    == Quartiles(s)
        iqr  == RSub(q[1], q[2])
        high == HighOutliers(s, RAdd(q[1], OneAndAHalf(iqr)))
        low  == LowOutliers(s, RSub(q[2], OneAndAHalf(iqr)))
    IN  <<Rat(Len(high \o low), Len(s)), iqr>>

PoInit ==
    /\ CdIdle
    /\ PsIdle
    /\ DlIdle
    /\ PlIdle
    /\ SfIdle
    /\ FdIdle
    /\ PfIdle
    /\ ImIdle
    /\ GcIdle
    /\ SmIdle
    /\ NuIdle
    /\ po_pc = "call"
    /\ values_list \in ValueLists
    /\ sorted_values = <<>>
    /\ third_qr = RInt(0)
    /\ first_qr = RInt(0)
    /\ IQR = RInt(0)
    /\ third_qr_threshold = RInt(0)
    /\ first_qr_threshold = RInt(0)
    /\ high_outliers = <<>>
    /\ low_outliers = <<>>
    /\ total_outliers = <<>>
    /\ percent_outliers = RInt(0)
    /\ po_ret = <<>>
    /\ po_exc = ""

\* line 45
PoSort ==
    /\ po_pc = "call"
    /\ sorted_values' = sorted(values_list)
    /\ po_pc' = "sorted"
    /\ UNCHANGED <<values_list, third_qr, first_qr, IQR, third_qr_threshold,
                   first_qr_threshold, high_outliers, low_outliers, total_outliers,
                   percent_outliers, po_ret, po_exc>>
    /\ UNCHANGED NotPo

\* lines 47-48
PoQuartiles ==
    /\ po_pc = "sorted"
    /\ sorted_values # <<>>
    /\ third_qr' = Quartiles(sorted_values)[1]
    /\ first_qr' = Quartiles(sorted_values)[2]
    /\ IQR' = RSub(third_qr', first_qr')
    /\ po_pc' = "quartiles"
    /\ UNCHANGED <<values_list, sorted_values, third_qr_threshold,
                   first_qr_threshold, high_outliers, low_outliers, total_outliers,
                   percent_outliers, po_ret, po_exc>>
    /\ UNCHANGED NotPo

\* an empty list answered with (0, 0)
PoEmpty_ReturnsZeros ==
    /\ po_pc = "sorted"
    /\ sorted_values = <<>>
    /\ po_ret' = <<RInt(0), RInt(0)>>
    /\ po_pc' = "done"
    /\ UNCHANGED <<values_list, sorted_values, third_qr, first_qr, IQR,
                   third_qr_threshold, first_qr_threshold, high_outliers,
                   low_outliers, total_outliers, percent_outliers, po_exc>>
    /\ UNCHANGED NotPo

\* lines 47-65 on an empty list: np.percentile raises IndexError, or (a later
\* numpy) gives nan and line 62 raises ZeroDivisionError; the except clause of
\* line 64 turns either into raise_smart_exception (and were that call to
\* come back, line 67 would read the unbound percent_outliers or IQR and
\* raise UnboundLocalError): the call ends in an exception
PoEmpty ==
    /\ po_pc = "sorted"
    /\ sorted_values = <<>>
    /\ po_exc' = raise_smart_exception
    /\ po_pc' = "raised"
    /\ UNCHANGED <<values_list, sorted_values, third_qr, first_qr, IQR,
                   third_qr_threshold, first_qr_threshold, high_outliers,
                   low_outliers, total_outliers, percent_outliers, po_ret>>
    /\ UNCHANGED NotPo

\* lines 51-52
PoThresholds ==
    /\ po_pc = "quartiles"
    /\ third_qr_threshold' = RAdd(third_qr, OneAndAHalf(IQR))
    /\ first_qr_threshold' = RSub(first_qr, OneAndAHalf(IQR))
    /\ po_pc' = "thresholds"
    /\ UNCHANGED <<values_list, sorted_values, third_qr, first_qr, IQR,
                   high_outliers, low_outliers, total_outliers,
                   percent_outliers, po_ret, po_exc>>
    /\ UNCHANGED NotPo

\* lines 54-62
PoCount ==
    /\ po_pc = "thresholds"
    /\ high_outliers' = HighOutliers(sorted_values, third_qr_threshold)
    /\ low_outliers' = LowOutliers(sorted_values, first_qr_threshold)
    /\ total_outliers' = high_outliers' \o low_outliers'
    /\ percent_outliers' = Rat(Len(total_outliers'), Len(sorted_values))
    /\ po_pc' = "counted"
    /\ UNCHANGED <<values_list, sorted_values, third_qr, first_qr, IQR,
                   third_qr_threshold, first_qr_threshold, po_ret, po_exc>>
    /\ UNCHANGED NotPo

\* line 67
PoReturn ==
    /\ po_pc = "counted"
    /\ po_ret' = <<percent_outliers, IQR>>
    /\ po_pc' = "done"
    /\ UNCHANGED <<values_list, sorted_values, third_qr, first_qr, IQR,
                   third_qr_threshold, first_qr_threshold, high_outliers,
                   low_outliers, total_outliers, percent_outliers, po_exc>>
    /\ UNCHANGED NotPo

PoNext ==
    \/ PoSort
    \/ PoQuartiles
    \/ PoEmpty
    \/ PoThresholds
    \/ PoCount
    \/ PoReturn

SpecOutliers == PoInit /\ [][PoNext]_vars

(***************************************************************************)
(* pass_floats, lines 5-25.  A text is a sequence of characters; a float   *)
(* is finite with a rational value, nan, or an infinity.  No numeral of    *)
(* the texts is beyond the range of a double.                              *)
(***************************************************************************)
MaxLines == 3

LF == "\n"
CR == "\r"
\* the form feed, and the vertical tab (written by its name)
FF == "\f"
VT == "<VT>"

Finite(q) == [kind |-> "finite", q |-> q]
NaN == [kind |-> "nan", q |-> RInt(0)]
Infinity(sign) == [kind |-> "inf", q |-> RInt(sign)]

\* the characters str.splitlines breaks a line at ("\r\n" counts once)
LineBreaks == {LF, CR}

\* the characters float() strips from both ends
Whitespace == {" ", "\t", LF, CR, VT, FF}

Digits == {"0", "1", "2", "3", "4", "5", "6", "7", "8", "9"}

DigitValue(c) ==
    CASE c = "0" -> 0 [] c = "1" -> 1 [] c = "2" -> 2 [] c = "3" -> 3
      [] c = "4" -> 4 [] c = "5" -> 5 [] c = "6" -> 6 [] c = "7" -> 7
      [] c = "8" -> 8 [] c = "9" -> 9

\* the lower case of the letters of 'nan', 'inf' and 'infinity'
lower(c) ==
    CASE c = "N" -> "n" [] c = "A" -> "a" [] c = "I" -> "i" [] c = "F" -> "f"
      [] c = "T" -> "t" [] c = "Y" -> "y" [] OTHER -> c

\* the place of the first character of s that is in set, 0 for none
RECURSIVE Find(_, _, _)
Find(s, set, k) ==
    IF k > Len(s) THEN 0
    ELSE IF s[k] \in set THEN k
    ELSE Find(s, set, k + 1)

\* line 15: output_string.splitlines(): the text cut at each line break, the
\* break left out, with no empty last line after a final break
RECURSIVE splitlines(_)
splitlines(text) ==
    IF text = <<>> THEN <<>>
    ELSE LET b == Find(text, LineBreaks, 1)
         IN  IF b = 0 THEN <<text>>
             ELSE LET crlf  == text[b] = CR /\ b < Len(text) /\ text[b + 1] = LF
                      after == IF crlf THEN b + 2 ELSE b + 1
                  IN  <<SubSeq(text, 1, b - 1)>>
                          \o splitlines(SubSeq(text, after, Len(text)))

RECURSIVE lstrip(_)
lstrip(s) == IF s # <<>> /\ Head(s) \in Whitespace THEN lstrip(Tail(s)) ELSE s

RECURSIVE rstrip(_)
rstrip(s) ==
    IF s # <<>> /\ s[Len(s)] \in Whitespace
    THEN rstrip(SubSeq(s, 1, Len(s) - 1))
    ELSE s

strip(s) == rstrip(lstrip(s))

AllDigits(s) == \A k \in 1..Len(s) : s[k] \in Digits

\* the number a string of digits writes, 0 for the empty string
RECURSIVE DecimalValue(_)
DecimalValue(s) ==
    IF s = <<>> THEN 0
    ELSE 10 * DecimalValue(SubSeq(s, 1, Len(s) - 1)) + DigitValue(s[Len(s)])

RECURSIVE Pow10(_)
Pow10(n) == IF n = 0 THEN 1 ELSE 10 * Pow10(n - 1)

\* the parts of a stripped line: sign, mantissa digits around the point, exponent
FloatParts(l) ==
    LET s       == strip(l)
        signed  == s # <<>> /\ s[1] \in {"+", "-"}
        body    == IF signed THEN Tail(s) ELSE s
        e       == Find(body, {"e", "E"}, 1)
        mant    == IF e = 0 THEN body ELSE SubSeq(body, 1, e - 1)
        expo    == IF e = 0 THEN <<>> ELSE SubSeq(body, e + 1, Len(body))
        esigned == expo # <<>> /\ expo[1] \in {"+", "-"}
        dot     == Find(mant, {"."}, 1)
    IN  [sign    |-> IF signed /\ s[1] = "-" THEN -1 ELSE 1,
         word    |-> [k \in 1..Len(body) |-> lower(body[k])],
         ipart   |-> IF dot = 0 THEN mant ELSE SubSeq(mant, 1, dot - 1),
         fpart   |-> IF dot = 0 THEN <<>> ELSE SubSeq(mant, dot + 1, Len(mant)),
         hasexp  |-> e # 0,
         esign   |-> IF esigned /\ expo[1] = "-" THEN -1 ELSE 1,
         edigits |-> IF esigned THEN Tail(expo) ELSE expo]

\* float() that knows no 'nan', 'inf' or 'infinity'
float_NumeralsOnly(l) ==
    LET p == FloatParts(l)
        numeral ==
            /\ AllDigits(p.ipart)
            /\ AllDigits(p.fpart)
            /\ Len(p.ipart) + Len(p.fpart) > 0
            /\ p.hasexp => (p.edigits # <<>> /\ AllDigits(p.edigits))
        mantissa == Rat(p.sign * (DecimalValue(p.ipart) * Pow10(Len(p.fpart))
                                     + DecimalValue(p.fpart)),
                        Pow10(Len(p.fpart)))
        scale == RInt(Pow10(DecimalValue(p.edigits)))
    IN  IF numeral
        THEN [ok |-> TRUE,
              val |-> Finite(IF p.esign = 1 THEN RMul(mantissa, scale)
                                            ELSE RDiv(mantissa, scale))]
        ELSE [ok |-> FALSE, val |-> NaN]

\* line 20: float(l): white space stripped, then a signed decimal numeral
\* with an optional exponent, or a signed 'nan', 'inf' or 'infinity' in any
\* case; ok is FALSE where float() raises ValueError
float(l) ==
    LET p == FloatParts(l)
    IN  IF p.word = <<"n", "a", "n">> THEN [ok |-> TRUE, val |-> NaN]
        ELSE IF p.word \in {<<"i", "n", "f">>,
                            <<"i", "n", "f", "i", "n", "i", "t", "y">>}
        THEN [ok |-> TRUE, val |-> Infinity(p.sign)]
        ELSE float_NumeralsOnly(l)

\* a line that does not parse put into the list as None
TryFloat_AppendNone(values, l) ==
    IF float(l).ok THEN Append(values, float(l).val)
    ELSE Append(values, [kind |-> "None", q |-> RInt(0)])

\* lines 19-23: the value of the line appended, or the line passed over
TryFloat(values, l) ==
    IF float(l).ok THEN Append(values, float(l).val) ELSE values

\* the lines a tool prints: numerals, messages, blanks
Line35 == <<"3", ".", "5">>
LineWarning == <<"-", "-", " ", "w", "a", "r", "n", "i", "n", "g", " ", "-", "-">>
Line21 == <<"2", ".", "1">>
LineNaN == <<"N", "a", "N">>
LineEmpty == <<>>
LinePadded == <<" ", "-", "7", "\t">>
LineExp == <<"+", ".", "5", "e", "-", "1">>
LineTwoPoints == <<"1", ".", "2", ".", "3">>
LineInf == <<"-", "i", "n", "f">>
LineCR == <<"4", "0", CR>>
LineFormFeed == <<" ", FF, " ", "2", VT>>

PrintedLines == {Line35, LineWarning, Line21, LineNaN, LineEmpty, LinePadded,
                 LineExp, LineTwoPoints, LineInf, LineCR, LineFormFeed}

\* the lines with a line feed between them
RECURSIVE JoinLines(_)
JoinLines(ls) ==
    IF ls = <<>> THEN <<>>
    ELSE IF Len(ls) = 1 THEN ls[1]
    ELSE ls[1] \o <<LF>> \o JoinLines(Tail(ls))

\* the text of the four lines "3.5", "-- warning --", "2.1", "NaN"
WarningText == JoinLines(<<Line35, LineWarning, Line21, LineNaN>>)

\* the texts: up to MaxLines printed lines, with or without a final line feed
OutputStrings ==
    {WarningText} \cup
    { JoinLines(ls) \o end : ls \in {<<>>} \cup SeqsUpTo(PrintedLines, MaxLines),
                             end \in {<<>>, <<LF>>} }

PfInit ==
    /\ CdIdle
    /\ PsIdle
    /\ DlIdle
    /\ PlIdle
    /\ SfIdle
    /\ FdIdle
    /\ PoIdle
    /\ ImIdle
    /\ GcIdle
    /\ SmIdle
    /\ NuIdle
    /\ pf_pc = "call"
    /\ output_string \in OutputStrings
    /\ pf_lines = <<>>
    /\ pf_values = <<>>
    /\ pf_l = 0
    /\ pf_ret = <<>>

\* lines 15-16
PfSplit ==
    /\ pf_pc = "call"
    /\ pf_lines' = splitlines(output_string)
    /\ pf_values' = <<>>
    /\ pf_l' = 0
    /\ pf_pc' = "loop"
    /\ UNCHANGED <<output_string, pf_ret>>
    /\ UNCHANGED NotPf

\* pf_lines 18-23: one pass of the loop, pf_l the number of lines passed
PfLine ==
    /\ pf_pc = "loop"
    /\ pf_l < Len(pf_lines)
    /\ pf_l' = pf_l + 1
    /\ pf_values' = TryFloat(pf_values, pf_lines[pf_l'])
    /\ UNCHANGED <<pf_pc, output_string, pf_lines, pf_ret>>
    /\ UNCHANGED NotPf

\* line 25
PfReturn ==
    /\ pf_pc = "loop"
    /\ pf_l = Len(pf_lines)
    /\ pf_ret' = pf_values
    /\ pf_pc' = "done"
    /\ UNCHANGED <<output_string, pf_lines, pf_values, pf_l>>
    /\ UNCHANGED NotPf

PfNext ==
    \/ PfSplit
    \/ PfLine
    \/ PfReturn

SpecFloats == PfInit /\ [][PfNext]_vars

(***************************************************************************)
(* Images.  A functional image is a grid of shape <<x, y, z>> holding one  *)
(* time series for each voxel, the voxels in row-major order; a mask is a  *)
(* grid of the same shape holding 0 or 1.  Reals are exact: the standard   *)
(* deviations are square roots of rationals.                               *)
(***************************************************************************)
MaxVoxels == 3

\* the time series of a voxel: rising, falling, alternating, constant
VoxelSeries == {<<1, 2, 3, 4>>, <<4, 3, 2, 1>>, <<1, 3, 1, 3>>, <<2, 2, 2, 2>>}

\* the grids of n voxels
Shapes(n) == {sh \in (1..n) \X (1..n) \X (1..n) : sh[1] * sh[2] * sh[3] = n}

Size(sh) == sh[1] * sh[2] * sh[3]

\* the place of voxel (vi, vj, vk), counted from 0, in row-major order
Place(sh, vi, vj, vk) == (vi * sh[2] + vj) * sh[3] + vk + 1

RECURSIVE TuplesOf(_, _)
TuplesOf(S, n) ==
    IF n = 0 THEN {<<>>}
    ELSE {Append(t, v) : t \in TuplesOf(S, n - 1), v \in S}

\* the functional images and masks of up to MaxVoxels voxels
FuncImages ==
    UNION {{[shape |-> sh, data |-> d] : sh \in Shapes(n), d \in TuplesOf(VoxelSeries, n)}
           : n \in 1..MaxVoxels}

Masks(sh) == {[shape |-> sh, data |-> d] : d \in TuplesOf({0, 1}, Size(sh))}

\* the largest k >= best with k * k dividing n
RECURSIVE SquarePart(_, _, _)
SquarePart(n, k, best) ==
    IF k * k > n THEN best
    ELSE SquarePart(n, k + 1, IF n % (k * k) = 0 THEN k ELSE best)

Coef(x, r) == IF \E t \in x : t[1] = r THEN (CHOOSE t \in x : t[1] = r)[2] ELSE RInt(0)

SAdd(x, y) ==
    LET rs == {t[1] : t \in x \cup y}
    IN  {<<r, RAdd(Coef(x, r), Coef(y, r))>> :
             r \in {r2 \in rs : RAdd(Coef(x, r2), Coef(y, r2)) # RInt(0)}}

SScale(x, q) == IF q = RInt(0) THEN {} ELSE {<<t[1], RMul(t[2], q)>> : t \in x}

\* c1 * sqrt(r1) times c2 * sqrt(r2)
TermMul(s, t) ==
    LET n == s[1] * t[1]
        k == SquarePart(n, 1, 1)
    IN  <<n \div (k * k), RMul(RMul(s[2], t[2]), RInt(k))>>

RECURSIVE SumProducts(_)
SumProducts(pairs) ==
    IF pairs = {} THEN {}
    ELSE LET p == CHOOSE p \in pairs : TRUE
         IN  SAdd({TermMul(p[1], p[2])}, SumProducts(pairs \ {p}))

SMul(x, y) == SumProducts(x \X y)

\* 1 / sqrt(v) of a rational v > 0
InvSqrt(v) ==
    LET n == v[1] * v[2]
        k == SquarePart(n, 1, 1)
    IN  {<<n \div (k * k), Rat(k, v[1])>>}

FromRat(q) == Real(IF q = RInt(0) THEN {} ELSE {<<1, q>>})

\* float arithmetic: nan in, nan out
Plus(a, b) == IF a.nan \/ b.nan THEN np_nan ELSE Real(SAdd(a.terms, b.terms))
Times(a, b) == IF a.nan \/ b.nan THEN np_nan ELSE Real(SMul(a.terms, b.terms))

\* a numpy float over a count: 0.0 / 0 is nan, with a warning and no exception
OverCount(a, n) ==
    IF a.nan THEN np_nan
    ELSE IF n = 0 THEN (IF a.terms = {} THEN np_nan ELSE Real(a.terms))
    ELSE Real(SScale(a.terms, Rat(1, n)))

RECURSIVE Sum(_)
Sum(s) == IF s = <<>> THEN 0 ELSE Head(s) + Sum(Tail(s))

RECURSIVE Total(_)
Total(s) == IF s = <<>> THEN Real({}) ELSE Plus(Head(s), Total(Tail(s)))

\* the rows of a 2-D array made its columns; an array without columns, or an
\* empty 1-D array, has nothing to iterate over afterwards
Transpose(a) ==
    IF a = <<>> \/ a[1] = <<>> THEN <<>>
    ELSE [c \in 1..Len(a[1]) |-> [r \in 1..Len(a) |-> a[r][c]]]

(***************************************************************************)
(* global_correlation, lines 252-299.                                      *)
(***************************************************************************)
\* the voxels of the image where the mask is not 0, in row-major order
RECURSIVE MaskedVoxels(_, _)
MaskedVoxels(data, mask) ==
    IF data = <<>> THEN <<>>
    ELSE (IF Head(mask) # 0 THEN <<Head(data)>> ELSE <<>>)
             \o MaskedVoxels(Tail(data), Tail(mask))

\* dvars.load(func_reorient, func_mask): the time series of the voxels in the
\* mask as an array of timepoints x voxels
load(func, mask) ==
    LET vs == MaskedVoxels(func.data, mask.data)
        T  == Len(func.data[1])
    IN  [t \in 1..T |-> [v \in 1..Len(vs) |-> vs[v][t]]]

\* the variance of a series, population formula
Variance(ts) ==
    LET n == Len(ts)
        squares == [t \in 1..n |-> (n * ts[t] - Sum(ts)) * (n * ts[t] - Sum(ts))]
    IN  Rat(Sum(squares), n * n * n)

\* the z-score with the sample standard deviation (ddof = 1)
zscore_Sample(ts) ==
    LET n   == Len(ts)
        var == RMul(Variance(ts), Rat(n, n - 1))
    IN  [t \in 1..n |->
            IF var = RInt(0) THEN np_nan
            ELSE Real(SScale(InvSqrt(var), Rat(n * ts[t] - Sum(ts), n)))]

\* line 281: scipy.stats.mstats.zscore(ts): (ts - ts.mean()) / ts.std(), the
\* standard deviation being that of the population; a constant series gives
\* 0.0 / 0.0 = nan at every timepoint, with a warning and no exception
zscore(ts) ==
    LET n   == Len(ts)
        var == Variance(ts)
    IN  [t \in 1..n |->
            IF var = RInt(0) THEN np_nan
            ELSE Real(SScale(InvSqrt(var), Rat(n * ts[t] - Sum(ts), n)))]

\* line 292: voxel.mean()
mean(voxel) == OverCount(Total(voxel), Len(voxel))

\* line 297: avg_ts.transpose().dot(avg_ts)
dot(a, b) == Total([t \in 1..Len(a) |-> Times(a[t], b[t])])

GcInit ==
    /\ CdIdle
    /\ PsIdle
    /\ DlIdle
    /\ PlIdle
    /\ SfIdle
    /\ FdIdle
    /\ PoIdle
    /\ PfIdle
    /\ SmIdle
    /\ NuIdle
    /\ gc_pc = "call"
    /\ func_reorient \in FuncImages
    /\ func_mask \in Masks(func_reorient.shape)
    /\ zero_variance_func = <<>>
    /\ list_of_ts = <<>>
    /\ demeaned_normed = <<>>
    /\ volume_list = <<>>
    /\ avg_ts = <<>>
    /\ gcor = Real({})
    /\ gc_ret = <<>>

\* lines 272-274
GcLoad ==
    /\ gc_pc = "call"
    /\ zero_variance_func' = load(func_reorient, func_mask)
    /\ list_of_ts' = Transpose(zero_variance_func')
    /\ gc_pc' = "loaded"
    /\ UNCHANGED <<demeaned_normed, volume_list, avg_ts, gcor, gc_ret>>
    /\ UNCHANGED <<imvars, NotGc>>

\* lines 278-287
GcZscore ==
    /\ gc_pc = "loaded"
    /\ demeaned_normed' = [v \in 1..Len(list_of_ts) |-> zscore(list_of_ts[v])]
    /\ volume_list' = Transpose(demeaned_normed')
    /\ gc_pc' = "normed"
    /\ UNCHANGED <<zero_variance_func, list_of_ts, avg_ts, gcor, gc_ret>>
    /\ UNCHANGED <<imvars, NotGc>>

\* lines 289-297
GcAverage ==
    /\ gc_pc = "normed"
    /\ avg_ts' = [t \in 1..Len(volume_list) |-> mean(volume_list[t])]
    /\ gcor' = OverCount(dot(avg_ts', avg_ts'), Len(avg_ts'))
    /\ gc_pc' = "averaged"
    /\ UNCHANGED <<zero_variance_func, list_of_ts, demeaned_normed, volume_list,
                   gc_ret>>
    /\ UNCHANGED <<imvars, NotGc>>

\* line 299
GcReturn ==
    /\ gc_pc = "averaged"
    /\ gc_ret' = <<gcor>>
    /\ gc_pc' = "done"
    /\ UNCHANGED <<zero_variance_func, list_of_ts, demeaned_normed, volume_list,
                   avg_ts, gcor>>
    /\ UNCHANGED <<imvars, NotGc>>

GcNext ==
    \/ GcLoad
    \/ GcZscore
    \/ GcAverage
    \/ GcReturn

SpecGcor == GcInit /\ [][GcNext]_vars

(***************************************************************************)
(* get_temporal_std_map, lines 311-326.                                    *)
(***************************************************************************)
\* qap.qap_utils.get_masked_data(data, mask): the data with every voxel
\* outside the mask set to 0
get_masked_data(data, mask) ==
    [shape |-> data.shape,
     data  |-> [v \in 1..Len(data.data) |->
                   IF mask.data[v] # 0 THEN data.data[v]
                   ELSE [t \in 1..Len(data.data[v]) |-> 0]]]

\* line 318: np.zeros(shape)
zeros(sh) == [shape |-> sh, data |-> [v \in 1..Size(sh) |-> Real({})]]

\* the standard deviation of the sample (ddof = 1)
np_std_Sample(ts) ==
    LET var == RMul(Variance(ts), Rat(Len(ts), Len(ts) - 1))
    IN  IF var = RInt(0) THEN Real({}) ELSE Real(SScale(InvSqrt(var), var))

\* line 323: np.std(ts): the square root of the population variance
np_std(ts) ==
    LET var == Variance(ts)
    IN  IF var = RInt(0) THEN Real({}) ELSE Real(SScale(InvSqrt(var), var))

\* the 3-D indices of a grid, counted from 0
Indices(sh) == (0..(sh[1] - 1)) \X (0..(sh[2] - 1)) \X (0..(sh[3] - 1))

\* lines 320-324: the three loops, each cell assigned the std of its voxel
StdLoops(map, data) ==
    [shape |-> map.shape,
     data  |-> [v \in 1..Len(map.data) |->
                   IF \E x \in Indices(data.shape) :
                          Place(data.shape, x[1], x[2], x[3]) = v
                   THEN np_std(data.data[v])
                   ELSE map.data[v]]]

SmInit ==
    /\ CdIdle
    /\ PsIdle
    /\ DlIdle
    /\ PlIdle
    /\ SfIdle
    /\ FdIdle
    /\ PoIdle
    /\ PfIdle
    /\ GcIdle
    /\ NuIdle
    /\ func_reorient \in FuncImages
    /\ func_mask \in Masks(func_reorient.shape)
    /\ sm_pc = "call"
    /\ func_data = NoImage
    /\ temporal_std_map = NoImage
    /\ sm_ret = <<>>

\* line 316
SmMask ==
    /\ sm_pc = "call"
    /\ func_data' = get_masked_data(func_reorient, func_mask)
    /\ sm_pc' = "masked"
    /\ UNCHANGED <<temporal_std_map, sm_ret>>
    /\ UNCHANGED <<imvars, NotSm>>

\* line 318
SmZeros ==
    /\ sm_pc = "masked"
    /\ temporal_std_map' = zeros(func_data.shape)
    /\ sm_pc' = "zeros"
    /\ UNCHANGED <<func_data, sm_ret>>
    /\ UNCHANGED <<imvars, NotSm>>

\* lines 320-324
SmLoops ==
    /\ sm_pc = "zeros"
    /\ temporal_std_map' = StdLoops(temporal_std_map, func_data)
    /\ sm_pc' = "filled"
    /\ UNCHANGED <<func_data, sm_ret>>
    /\ UNCHANGED <<imvars, NotSm>>

\* line 326
SmReturn ==
    /\ sm_pc = "filled"
    /\ sm_ret' = <<temporal_std_map>>
    /\ sm_pc' = "done"
    /\ UNCHANGED <<func_data, temporal_std_map>>
    /\ UNCHANGED <<imvars, NotSm>>

SmNext ==
    \/ SmMask
    \/ SmZeros
    \/ SmLoops
    \/ SmReturn

SpecStdMap == SmInit /\ [][SmNext]_vars

(***************************************************************************)
(* create_threshold_mask, lines 329-343, and calc_estimated_csf_nuisance,  *)
(* lines 346-364.                                                          *)
(***************************************************************************)
\* the time series behind the cells of a map: those of VoxelSeries and two
\* with larger deviations
MapSeries == VoxelSeries \cup {<<2, 4, 6, 8>>, <<0, 6, 0, 6>>}

StdValues == {np_std(ts) : ts \in MapSeries}

\* the temporal standard-deviation maps of up to MaxVoxels voxels
StdMaps ==
    UNION {{[shape |-> sh, data |-> d] : sh \in Shapes(n), d \in TuplesOf(StdValues, n)}
           : n \in 1..MaxVoxels}

\* the square of a real that is a rational times one square root
Square(x) == Coef(Times(x, x).terms, 1)

\* x > y for reals x, y >= 0, each a rational times one square root
Greater(x, y) == RLt(Square(y), Square(x))

\* the index of the cell at place v along axis 1, 2 or 3
IndexAt(sh, v, axis) ==
    CASE axis = 1 -> (v - 1) \div (sh[2] * sh[3])
      [] axis = 2 -> ((v - 1) \div sh[3]) % sh[2]
      [] axis = 3 -> (v - 1) % sh[3]

\* the places of the cells that are not 0, in row-major order
RECURSIVE NonzeroPlaces(_, _)
NonzeroPlaces(data, v) ==
    IF v > Len(data) THEN <<>>
    ELSE (IF data[v] # Real({}) THEN <<v>> ELSE <<>>) \o NonzeroPlaces(data, v + 1)

\* a.nonzero(): for each axis the indices of the cells that are not 0
nonzero(a) ==
    LET ps == NonzeroPlaces(a.data, 1)
    IN  [axis \in 1..3 |-> [n \in 1..Len(ps) |-> IndexAt(a.shape, ps[n], axis)]]

\* np.asarray(...).flatten() of the three index arrays: one after the other
flatten(ix) == ix[1] \o ix[2] \o ix[3]

\* int(top_2)
int(q) == q[1] \div q[2]

\* np.mean of an array of indices; of an empty array nan, with a warning
np_mean(a) == IF a = <<>> THEN np_nan ELSE FromRat(Rat(Sum(a), Len(a)))

\* lines 329-343: 1 where the cell is above the threshold, 0 elsewhere
create_threshold_mask(data, threshold) ==
    [shape |-> data.shape,
     data  |-> [v \in 1..Len(data.data) |->
                   IF Greater(data.data[v], threshold) THEN 1 ELSE 0]]

\* qap.qap_utils.get_masked_data(data, mask) of a 3-D map: the map with
\* every cell outside the mask set to 0
get_masked_map(data, mask) ==
    [shape |-> data.shape,
     data  |-> [v \in 1..Len(data.data) |->
                   IF mask.data[v] # 0 THEN data.data[v] ELSE Real({})]]

\* lines 351-364 as one function
calc_estimated_csf_nuisance(map) ==
    LET tstd   == flatten(nonzero(map))
        srt    == sorted(tstd)
        first_ == int(Rat(98 * Len(tstd), 100)) + 1
    IN  IF first_ > Len(srt) THEN [raised |-> "IndexError", val |-> np_nan]
        ELSE LET mask == create_threshold_mask(map, FromRat(RInt(srt[first_])))
                 stds == get_masked_map(map, mask)
             IN  [raised |-> "", val |-> np_mean(flatten(nonzero(stds)))]

NuInit ==
    /\ CdIdle
    /\ PsIdle
    /\ DlIdle
    /\ PlIdle
    /\ SfIdle
    /\ FdIdle
    /\ PoIdle
    /\ PfIdle
    /\ ImIdle
    /\ GcIdle
    /\ sm_pc = "idle"
    /\ func_data = NoImage
    /\ sm_ret = <<>>
    /\ temporal_std_map \in StdMaps
    /\ nu_pc = "call"
    /\ NuLocalsUnset

\* lines 351-353
NuFlatten ==
    /\ nu_pc = "call"
    /\ all_tstd' = flatten(nonzero(temporal_std_map))
    /\ all_tstd_sorted' = sorted(all_tstd')
    /\ top_2' = Rat(98 * Len(all_tstd'), 100)
    /\ nu_pc' = "sorted"
    /\ UNCHANGED <<top_2_std, cutoff, estimated_nuisance_mask, nuisance_stds,
                   nuisance_mean_std, nu_ret, nu_exc>>
    /\ UNCHANGED NotNu

\* lines 355-356
NuCutoff ==
    /\ nu_pc = "sorted"
    /\ top_2_std' = SubSeq(all_tstd_sorted, int(top_2) + 1, Len(all_tstd_sorted))
    /\ IF top_2_std' = <<>>
       THEN /\ nu_exc' = "IndexError"
            /\ nu_pc' = "raised"
            /\ UNCHANGED cutoff
       ELSE /\ cutoff' = FromRat(RInt(top_2_std'[1]))
            /\ nu_pc' = "cutoff"
            /\ UNCHANGED nu_exc
    /\ UNCHANGED <<all_tstd, all_tstd_sorted, top_2, estimated_nuisance_mask,
                   nuisance_stds, nuisance_mean_std, nu_ret>>
    /\ UNCHANGED NotNu

\* line 358
NuMask ==
    /\ nu_pc = "cutoff"
    /\ estimated_nuisance_mask' = create_threshold_mask(temporal_std_map, cutoff)
    /\ nu_pc' = "mask"
    /\ UNCHANGED <<all_tstd, all_tstd_sorted, top_2, top_2_std, cutoff,
                   nuisance_stds, nuisance_mean_std, nu_ret, nu_exc>>
    /\ UNCHANGED NotNu

\* lines 360-362
NuMean ==
    /\ nu_pc = "mask"
    /\ nuisance_stds' = get_masked_map(temporal_std_map, estimated_nuisance_mask)
    /\ nuisance_mean_std' = np_mean(flatten(nonzero(nuisance_stds')))
    /\ nu_pc' = "mean"
    /\ UNCHANGED <<all_tstd, all_tstd_sorted, top_2, top_2_std, cutoff,
                   estimated_nuisance_mask, nu_ret, nu_exc>>
    /\ UNCHANGED NotNu

\* line 364
NuReturn ==
    /\ nu_pc = "mean"
    /\ nu_ret' = <<nuisance_mean_std>>
    /\ nu_pc' = "done"
    /\ UNCHANGED <<all_tstd, all_tstd_sorted, top_2, top_2_std, cutoff,
                   estimated_nuisance_mask, nuisance_stds, nuisance_mean_std,
                   nu_exc>>
    /\ UNCHANGED NotNu

NuNext ==
    \/ NuFlatten
    \/ NuCutoff
    \/ NuMask
    \/ NuMean
    \/ NuReturn

SpecNuisance == NuInit /\ [][NuNext]_vars

(***************************************************************************)
(* sfs_voxel, lines 367-391, and sfs_timeseries, lines 394-424.            *)
(***************************************************************************)
\* +inf, the quotient of a positive numpy float by 0: the one term has
\* the radicand 0
np_inf == [nan |-> FALSE, terms |-> {<<0, RInt(1)>>}]

\* a / b for numpy floats a, b >= 0, each a rational times one square root
Quotient(a, b) ==
    IF a.nan \/ b.nan THEN np_nan
    ELSE IF b = np_inf THEN (IF a = np_inf THEN np_nan ELSE Real({}))
    ELSE IF a = np_inf THEN np_inf
    ELSE IF b.terms = {} THEN (IF a.terms = {} THEN np_nan ELSE np_inf)
    ELSE Real(SScale(SMul(a.terms, b.terms), RDiv(RInt(1), Square(b))))

\* a * b for numpy floats a, b >= 0
Product(a, b) ==
    IF a.nan \/ b.nan THEN np_nan
    ELSE IF a = np_inf \/ b = np_inf
    THEN (IF a.terms = {} \/ b.terms = {} THEN np_nan ELSE np_inf)
    ELSE Times(a, b)

\* lines 384-389
sfs_voxel(voxel_ts, total_func_mean_, nuisance_mean_std_) ==
    LET voxel_ts_mean == FromRat(Rat(Sum(voxel_ts), Len(voxel_ts)))
        voxel_ts_std  == np_std(voxel_ts)
    IN  Product(Quotient(voxel_ts_mean, total_func_mean_),
                Quotient(voxel_ts_std, nuisance_mean_std_))

\* the image of the means over time of a functional image
MeanImage(func) ==
    [shape |-> func.shape,
     data  |-> [v \in 1..Len(func.data) |->
                   FromRat(Rat(Sum(func.data[v]), Len(func.data[v])))]]

\* the mask that includes every voxel
WholeMask(sh) == [shape |-> sh, data |-> [v \in 1..Size(sh) |-> 1]]

\* get_temporal_std_map as one function
StdMapOf(func, mask) == StdLoops(zeros(func.shape), get_masked_data(func, mask))

\* the mean image of a functional image, a mask, and the std map of the
\* image, taken within the mask or over the whole image
SfInit ==
    /\ CdIdle
    /\ PsIdle
    /\ DlIdle
    /\ PlIdle
    /\ FdIdle
    /\ PoIdle
    /\ PfIdle
    /\ GcIdle
    /\ NuIdle
    /\ func_reorient = NoImage
    /\ sm_pc = "idle"
    /\ func_data = NoImage
    /\ sm_ret = <<>>
    /\ \E func \in FuncImages :
          /\ func_mean = MeanImage(func)
          /\ func_mask \in Masks(func.shape)
          /\ temporal_std_map \in {StdMapOf(func, func_mask),
                                   StdMapOf(func, WholeMask(func.shape))}
    /\ sf_pc = "call"
    /\ SfLocalsUnset

\* lines 406-414
SfLoad ==
    /\ sf_pc = "call"
    /\ masked_func_mean' = MaskedVoxels(func_mean.data, func_mask.data)
    /\ total_func_mean' = OverCount(Total(masked_func_mean'), Len(masked_func_mean'))
    /\ masked_tstd' = MaskedVoxels(temporal_std_map.data, func_mask.data)
    /\ sf_pc' = "loaded"
    /\ UNCHANGED <<func_mean, sf_nuisance_mean_std, arg_tuples, sfs_voxels,
                   sf_ret, sf_exc>>
    /\ UNCHANGED <<imvars, smvars, NotSf>>

\* line 416: the call of calc_estimated_csf_nuisance; its exception is not caught
SfNuisance ==
    /\ sf_pc = "loaded"
    /\ LET r == calc_estimated_csf_nuisance(temporal_std_map)
       IN  IF r.raised # ""
           THEN /\ sf_exc' = r.raised
                /\ sf_pc' = "raised"
                /\ UNCHANGED sf_nuisance_mean_std
           ELSE /\ sf_nuisance_mean_std' = r.val
                /\ sf_pc' = "nuisance"
                /\ UNCHANGED sf_exc
    /\ UNCHANGED <<func_mean, masked_func_mean, total_func_mean, masked_tstd,
                   arg_tuples, sfs_voxels, sf_ret>>
    /\ UNCHANGED <<imvars, smvars, NotSf>>

\* lines 418-421: list.append takes one argument; called with four it raises
\* TypeError in the first pass of the loop
SfLoop ==
    /\ sf_pc = "nuisance"
    /\ IF masked_func_mean # <<>> /\ masked_tstd # <<>>
       THEN /\ sf_exc' = "TypeError"
            /\ sf_pc' = "raised"
            /\ UNCHANGED arg_tuples
       ELSE /\ arg_tuples' = <<>>
            /\ sf_pc' = "tuples"
            /\ UNCHANGED sf_exc
    /\ UNCHANGED <<func_mean, masked_func_mean, total_func_mean, masked_tstd,
                   sf_nuisance_mean_std, sfs_voxels, sf_ret>>
    /\ UNCHANGED <<imvars, smvars, NotSf>>

\* lines 423-425: map over the list, which is empty here, and the return
SfReturn ==
    /\ sf_pc = "tuples"
    /\ arg_tuples = <<>>
    /\ sfs_voxels' = <<>>
    /\ sf_ret' = <<sfs_voxels'>>
    /\ sf_pc' = "done"
    /\ UNCHANGED <<func_mean, masked_func_mean, total_func_mean, masked_tstd,
                   sf_nuisance_mean_std, arg_tuples, sf_exc>>
    /\ UNCHANGED <<imvars, smvars, NotSf>>

SfNext ==
    \/ SfLoad
    \/ SfNuisance
    \/ SfLoop
    \/ SfReturn

SpecSfs == SfInit /\ [][SfNext]_vars

(***************************************************************************)
(* Strings and dictionaries of script_utils.py and cloud_utils.py.  A      *)
(* string is a sequence of characters; a dict is a function on its keys.   *)
(***************************************************************************)
MaxFiles == 2

\* list.remove(x): the list without its first x; raised is TRUE for ValueError
remove(l, x) ==
    LET at == {k \in 1..Len(l) : l[k] = x}
    IN  IF at = {} THEN [raised |-> TRUE, list |-> l]
        ELSE LET k == CHOOSE k \in at : \A j \in at : k <= j
             IN  [raised |-> FALSE,
                  list |-> SubSeq(l, 1, k - 1) \o SubSeq(l, k + 1, Len(l))]

\* s.replace(old, new) for a non-empty old
RECURSIVE replace(_, _, _)
replace(s, old, new) ==
    LET k == FindSub(s, old, 1)
    IN  IF k = 0 THEN s
        ELSE SubSeq(s, 1, k - 1) \o new
                 \o replace(SubSeq(s, k + Len(old), Len(s)), old, new)

\* the components with "/" between them
RECURSIVE JoinPath(_)
JoinPath(cs) ==
    IF cs = <<>> THEN <<>>
    ELSE IF Len(cs) = 1 THEN cs[1]
    ELSE cs[1] \o <<"/">> \o JoinPath(Tail(cs))

\* posixpath.normpath, the loop over the components: empty ones and "." are
\* passed over, ".." takes the last component away (at the root it is dropped)
RECURSIVE NormComps(_, _, _)
NormComps(comps, new_comps, rooted) ==
    IF comps = <<>> THEN new_comps
    ELSE LET comp == Head(comps)
         IN  IF comp \in {<<>>, <<".">>}
             THEN NormComps(Tail(comps), new_comps, rooted)
             ELSE IF \/ comp # <<".", ".">>
                     \/ (~rooted /\ new_comps = <<>>)
                     \/ (new_comps # <<>> /\ new_comps[Len(new_comps)] = <<".", ".">>)
             THEN NormComps(Tail(comps), Append(new_comps, comp), rooted)
             ELSE IF new_comps # <<>>
             THEN NormComps(Tail(comps), SubSeq(new_comps, 1, Len(new_comps) - 1), rooted)
             ELSE NormComps(Tail(comps), new_comps, rooted)

\* posixpath.normpath: exactly two leading "/" are kept as two
normpath(path) ==
    IF path = <<>> THEN <<".">>
    ELSE LET initial_slashes ==
                 IF path[1] # "/" THEN 0
                 ELSE IF Len(path) >= 2 /\ path[2] = "/" /\ ~(Len(path) >= 3 /\ path[3] = "/")
                 THEN 2
                 ELSE 1
             joined == JoinPath(NormComps(split(path, <<"/">>), <<>>, initial_slashes > 0))
             res == [k \in 1..initial_slashes |-> "/"] \o joined
         IN  IF res = <<>> THEN <<".">> ELSE res

\* os.path.abspath of a directory: joined to the working directory when it
\* is relative, then normalised
abspath_dir(p) ==
    normpath(IF p # <<>> /\ p[1] = "/" THEN p
             ELSE IF cwd[Len(cwd)] = "/" THEN cwd \o p
             ELSE cwd \o <<"/">> \o p)

\* d[k] = v
DictPut(d, k, v) == [x \in (DOMAIN d) \cup {k} |-> IF x = k THEN v ELSE d[x]]

(***************************************************************************)
(* parse_raw_data_list, script_utils.py lines 80-197.                      *)
(***************************************************************************)
\* the names of directories and files
Rootdir == <<"d">>
Otherdir == <<"e">>
Site == <<"s">>
Part1 == <<"p", "1">>
Part2 == <<"p", "2">>
Sess == <<"a">>
ScanAnat == <<"a", "n", "a", "t">>
ScanRest == <<"r", "e", "s", "t">>
ScanDwi == <<"d", "w", "i">>
FileX == <<"x">>
FileMprage == <<"m", "p", "r", "a", "g", "e">>

\* the file paths: anatomical and functional files of two participants, a
\* file that is neither, a path one directory short, a path elsewhere
RawPaths ==
    {JoinPath(<<<<>>, Rootdir, Site, Part1, Sess, ScanAnat, FileX>>),
     JoinPath(<<<<>>, Rootdir, Site, Part2, Sess, ScanRest, FileX>>),
     JoinPath(<<<<>>, Rootdir, Site, Part2, Sess, ScanDwi, FileMprage>>),
     JoinPath(<<<<>>, Rootdir, Site, Part1, Sess, ScanDwi, FileX>>),
     JoinPath(<<<<>>, Rootdir, Part1, Sess, ScanAnat, FileX>>),
     JoinPath(<<<<>>, Otherdir, Site, Part1, Sess, ScanAnat, FileX>>)}

\* site_folder: "/d", "/d/" and "d", and "./d", "/d/.", "/e/../d", "/d//"
SiteFolders ==
    {<<"/">> \o Rootdir, <<"/">> \o Rootdir \o <<"/">>, Rootdir,
     <<".", "/">> \o Rootdir, <<"/">> \o Rootdir \o <<"/", ".">>,
     <<"/">> \o Otherdir \o <<"/", ".", ".", "/">> \o Rootdir,
     <<"/">> \o Rootdir \o <<"/", "/">>}

\* inclusion_list: None, or a list of participants
InclusionLists == {None, <<Part1>>, <<Part2>>, <<Part1, Part2>>}

InList(x, l) == \E k \in 1..Len(l) : l[k] = x

\* lines 152-158: the resource of a scan and file name, "" for None
Resource(scan, filename) ==
    IF \/ Contains(ScanRest, scan) \/ Contains(ScanRest, filename)
       \/ Contains(<<"f", "u", "n", "c">>, scan)
       \/ Contains(<<"f", "u", "n", "c">>, filename)
    THEN "functional_scan"
    ELSE IF \/ Contains(ScanAnat, scan) \/ Contains(ScanAnat, filename)
            \/ Contains(FileMprage, filename)
    THEN "anatomical_scan"
    ELSE ""

\* lines 163-174 and 179-190: the file put into the dictionary unless its
\* scan is there
AddScan(d, site, subject, session, resource, scan, fullpath) ==
    LET d1 == IF subject \in DOMAIN d THEN d ELSE DictPut(d, subject, <<>>)
        s1 == IF session \in DOMAIN d1[subject] THEN d1[subject]
              ELSE DictPut(d1[subject], session, <<>>)
        r1 == IF resource \in DOMAIN s1[session] THEN s1[session]
              ELSE DictPut(DictPut(s1[session], resource, <<>>), "site_name", site)
        c1 == IF scan \in DOMAIN r1[resource] THEN r1[resource]
              ELSE DictPut(r1[resource], scan, fullpath)
    IN  DictPut(d1, subject, DictPut(s1, session, DictPut(r1, resource, c1)))

PlInit ==
    /\ CdIdle
    /\ PsIdle
    /\ DlIdle
    /\ FdIdle
    /\ PoIdle
    /\ PfIdle
    /\ ImIdle
    /\ GcIdle
    /\ SmIdle
    /\ NuIdle
    /\ SfIdle
    /\ pl_pc = "call"
    /\ filepath_list \in {<<>>} \cup SeqsUpTo(RawPaths, MaxFiles)
    /\ site_folder \in SiteFolders
    /\ inclusion_list \in InclusionLists
    /\ s3_bucket \in BOOLEAN
    /\ PlLocalsUnset

\* lines 106-112
PlEnter ==
    /\ pl_pc = "call"
    /\ sub_dict' = <<>>
    /\ IF inclusion_list = <<>>
       THEN inclusion' = "False"
       ELSE UNCHANGED inclusion
    /\ site_folder' = IF ~s3_bucket THEN abspath_dir(site_folder) ELSE site_folder
    /\ pl_pc' = "loop"
    /\ UNCHANGED <<filepath_list, inclusion_list, s3_bucket, pl_n, ids_bound,
                   site_id, subject_id, pl_session_id, scan_id, pl_ret, pl_exc>>
    /\ UNCHANGED NotPl

\* lines 114-190: one pass of the loop, pl_n the number of paths passed
PlFile ==
    /\ pl_pc = "loop"
    /\ pl_n < Len(filepath_list)
    /\ pl_n' = pl_n + 1
    /\ LET fullpath == filepath_list[pl_n']
           halves   == split(fullpath, site_folder)
           second_half == halves[2]
           pieces   == split(second_half, <<"/">>)
           filename == pieces[Len(pieces)]
           second_half_list == remove(pieces, <<>>).list
           len      == Len(second_half_list)
           parsed   == len >= 5
           bound    == ids_bound \/ parsed
           site     == IF parsed THEN second_half_list[len - 4] ELSE site_id
           subject  == IF parsed THEN second_half_list[len - 3] ELSE subject_id
           session  == IF parsed THEN second_half_list[len - 2] ELSE pl_session_id
           scan     == IF parsed THEN second_half_list[len - 1] ELSE scan_id
           included == IF inclusion = "False" THEN Append(inclusion_list, subject)
                       ELSE inclusion_list
           resource == Resource(scan, filename)
       IN  IF Len(halves) < 2
           THEN \* lines 118-123
                /\ pl_exc' = "Exception"
                /\ pl_pc' = "raised"
                /\ UNCHANGED <<ids_bound, site_id, subject_id, pl_session_id,
                               scan_id, inclusion_list, sub_dict>>
           ELSE /\ ids_bound' = bound
                /\ site_id' = site
                /\ subject_id' = subject
                /\ pl_session_id' = session
                /\ scan_id' = scan
                /\ IF inclusion = "unbound" \/ ~bound
                   THEN \* line 147: inclusion, or line 148: subject_id, is not assigned
                        /\ pl_exc' = "UnboundLocalError"
                        /\ pl_pc' = "raised"
                        /\ UNCHANGED <<inclusion_list, sub_dict>>
                   ELSE /\ inclusion_list' = included
                        /\ sub_dict' =
                              IF resource # "" /\ InList(subject, included)
                              THEN AddScan(sub_dict, site, subject, session,
                                           resource, scan, fullpath)
                              ELSE sub_dict
                        /\ UNCHANGED <<pl_pc, pl_exc>>
    /\ UNCHANGED <<filepath_list, site_folder, s3_bucket, inclusion, pl_ret>>
    /\ UNCHANGED NotPl

\* lines 192-197
PlReturn ==
    /\ pl_pc = "loop"
    /\ pl_n = Len(filepath_list)
    /\ IF DOMAIN sub_dict = {}
       THEN /\ pl_exc' = "Exception"
            /\ pl_pc' = "raised"
            /\ UNCHANGED pl_ret
       ELSE /\ pl_ret' = <<sub_dict>>
            /\ pl_pc' = "done"
            /\ UNCHANGED pl_exc
    /\ UNCHANGED <<filepath_list, site_folder, inclusion_list, s3_bucket, sub_dict,
                   inclusion, pl_n, ids_bound, site_id, subject_id, pl_session_id,
                   scan_id>>
    /\ UNCHANGED NotPl

PlNext ==
    \/ PlEnter
    \/ PlFile
    \/ PlReturn

SpecRawData == PlInit /\ [][PlNext]_vars

(***************************************************************************)
(* dl_subj_from_s3, cloud_utils.py lines 97-163.  The YAML files are the   *)
(* values loaded from them; the download is the request made.              *)
(***************************************************************************)
\* the code point of a character of a key
Ord(c) ==
    CASE c = "1" -> 49 [] c = "2" -> 50 [] c = "a" -> 97 [] c = "e" -> 101
      [] c = "n" -> 110 [] c = "p" -> 112 [] c = "r" -> 114 [] c = "s" -> 115
      [] c = "t" -> 116

\* a < b for strings
RECURSIVE StrLess(_, _)
StrLess(a, b) ==
    IF b = <<>> THEN FALSE
    ELSE IF a = <<>> THEN TRUE
    ELSE IF Head(a) = Head(b) THEN StrLess(Tail(a), Tail(b))
    ELSE Ord(Head(a)) < Ord(Head(b))

\* a < b for tuples of strings
RECURSIVE KeyLess(_, _)
KeyLess(a, b) ==
    IF b = <<>> THEN FALSE
    ELSE IF a = <<>> THEN TRUE
    ELSE IF Head(a) = Head(b) THEN KeyLess(Tail(a), Tail(b))
    ELSE StrLess(Head(a), Head(b))

\* the keys from the greatest to the least
RECURSIVE SortedKeys_Descending(_)
SortedKeys_Descending(keys) ==
    IF keys = {} THEN <<>>
    ELSE LET most == CHOOSE k \in keys : \A j \in keys \ {k} : KeyLess(j, k)
         IN  <<most>> \o SortedKeys_Descending(keys \ {most})

\* lines 143-144: the keys of the dictionary, sorted
RECURSIVE SortedKeys(_)
SortedKeys(keys) ==
    IF keys = {} THEN <<>>
    ELSE LET least == CHOOSE k \in keys : \A j \in keys \ {k} : KeyLess(k, j)
         IN  <<least>> \o SortedKeys(keys \ {least})

\* the orders dict.items() may list the keys in
Orders(keys) ==
    {o \in [1..Cardinality(keys) -> keys] : \A k \in keys : \E n \in DOMAIN o : o[n] = k}

\* the bucket prefix "d/s", local prefixes, and the files of the bucket
BucketPrefix == <<"d", "/", "s">>
LocalPrefixes == {<<"/", "l">>, <<>>}
S3Anat1 == <<"d", "/", "s", "/", "p", "1", "/", "a", "/", "a", "n", "a", "t", "/", "x">>
S3Rest2 == <<"d", "/", "s", "/", "p", "2", "/", "a", "/", "r", "e", "s", "t", "/", "x">>
S3Rest1 == <<"d", "/", "s", "/", "p", "1", "/", "a", "/", "r", "e", "s", "t", "/", "d", "/", "s">>

\* the entries of a dictionary of S3 file paths
S3Entries ==
    {<< <<Part1, Sess, ScanAnat>>, [anatomical_scan |-> S3Anat1] >>,
     << <<Part2, Sess, ScanRest>>, [functional_scan |-> S3Rest2] >>,
     << <<Part1, Sess, ScanRest>>,
        [functional_scan |-> S3Rest1, anatomical_scan |-> S3Anat1] >>}

\* the dictionary of a set of entries
DictOf(entries) ==
    [k \in {e[1] : e \in entries} |-> (CHOOSE e \in entries : e[1] = k)[2]]

DlInit ==
    /\ CdIdle
    /\ PsIdle
    /\ FdIdle
    /\ PoIdle
    /\ PfIdle
    /\ ImIdle
    /\ GcIdle
    /\ SmIdle
    /\ NuIdle
    /\ SfIdle
    /\ PlIdle
    /\ dl_pc = "call"
    /\ subj_idx \in 0..(Cardinality(S3Entries) + 1)
    /\ bucket_prefix = BucketPrefix
    /\ local_prefix \in LocalPrefixes
    /\ s3_dict \in {DictOf(es) : es \in SUBSET S3Entries}
    /\ DlLocalsUnset

\* lines 119-148
DlPick ==
    /\ dl_pc = "call"
    /\ IF DOMAIN s3_dict = {}
       THEN \* lines 137-140
            /\ dl_exc' = "Exception"
            /\ dl_pc' = "raised"
            /\ UNCHANGED <<sd_keys, subj_key, dl_sub_dict>>
       ELSE /\ sd_keys' = SortedKeys(DOMAIN s3_dict)
            /\ IF subj_idx - 1 >= Len(sd_keys')
               THEN \* line 147: IndexError
                    /\ dl_exc' = "IndexError"
                    /\ dl_pc' = "raised"
                    /\ UNCHANGED <<subj_key, dl_sub_dict>>
               ELSE \* the index -1 of subj_idx = 0 is the last key
                    /\ subj_key' = IF subj_idx = 0 THEN sd_keys'[Len(sd_keys')]
                                   ELSE sd_keys'[subj_idx]
                    /\ dl_sub_dict' = s3_dict[subj_key']
                    /\ dl_pc' = "picked"
                    /\ UNCHANGED dl_exc
    /\ UNCHANGED <<subj_idx, bucket_prefix, local_prefix, s3_dict, s3_dl, local_dl,
                   downloads, dl_ret>>
    /\ UNCHANGED NotDl

\* lines 151-156: the paths of the entry, in the order of its items, and
\* the entry's paths replaced; the entry is that of s3_dict itself
DlPaths ==
    /\ dl_pc = "picked"
    /\ \E order \in Orders(DOMAIN dl_sub_dict) :
          s3_dl' = [n \in DOMAIN order |-> dl_sub_dict[order[n]]]
    /\ dl_sub_dict' = [k \in DOMAIN dl_sub_dict |->
                          replace(dl_sub_dict[k], bucket_prefix, local_prefix)]
    /\ s3_dict' = [s3_dict EXCEPT ![subj_key] = dl_sub_dict']
    /\ local_dl' = [n \in DOMAIN s3_dl' |->
                       replace(s3_dl'[n], bucket_prefix, local_prefix)]
    /\ dl_pc' = "paths"
    /\ UNCHANGED <<subj_idx, bucket_prefix, local_prefix, sd_keys, subj_key,
                   downloads, dl_ret, dl_exc>>
    /\ UNCHANGED NotDl

\* lines 158-163
DlDownload ==
    /\ dl_pc = "paths"
    /\ downloads' = Append(downloads, <<s3_dl, local_dl>>)
    /\ dl_ret' = <<DictPut(<<>>, subj_key, dl_sub_dict)>>
    /\ dl_pc' = "done"
    /\ UNCHANGED <<subj_idx, bucket_prefix, local_prefix, s3_dict, sd_keys, subj_key,
                   dl_sub_dict, s3_dl, local_dl, dl_exc>>
    /\ UNCHANGED NotDl

DlNext ==
    \/ DlPick
    \/ DlPaths
    \/ DlDownload

SpecDownload == DlInit /\ [][DlNext]_vars

(***************************************************************************)
(* pull_S3_sublist, cloud_utils.py lines 5-94.  The bucket is the list of  *)
(* the file names it holds, which S3 lists in ascending order; the YAML    *)
(* file written is the dictionary dumped to it.                            *)
(***************************************************************************)
\* the file names of the bucket, in ascending order: two sites, two
\* participants, and a name of one component
BucketFiles ==
    <<<<"s", "1", "/", "p", "1", "/", "a", "/", "a", "n", "a", "t", "/", "x">>,
      <<"s", "1", "/", "p", "1", "/", "a", "/", "a", "n", "a", "t", "/", "y">>,
      <<"s", "1", "/", "p", "1", "/", "a", "/", "r", "e", "s", "t", "/", "x">>,
      <<"s", "1", "/", "p", "2", "/", "a", "/", "a", "n", "a", "t", "/", "x">>,
      <<"s", "2", "/", "p", "1", "/", "a", "/", "a", "n", "a", "t", "/", "x">>,
      <<"x">>>>

\* the names of a set of places of the bucket, in the order of the bucket
RECURSIVE Listing(_)
Listing(places) ==
    IF places = {} THEN <<>>
    ELSE LET least == CHOOSE k \in places : \A j \in places : k <= j
         IN  <<BucketFiles[least]>> \o Listing(places \ {least})

ImgTypes == {ScanAnat, ScanRest, <<"a">>}

\* yaml_outpath: "o.yml" in the working directory, the device "/dev/null",
\* "/n/o.yml" in a directory that does not exist, and the directory "/"
YamlOutpaths == {<<"o", ".", "y", "m", "l">>, <<"/", "d", "e", "v", "/", "n", "u", "l", "l">>,
                 <<"/", "n", "/", "o", ".", "y", "m", "l">>, <<"/">>}

\* os.path.isfile after the write: a regular file
isfile(path) == FilePath(path) \notin Devices \cup {NoPath}

PsInit ==
    /\ CdIdle
    /\ FdIdle
    /\ PoIdle
    /\ PfIdle
    /\ ImIdle
    /\ GcIdle
    /\ SmIdle
    /\ NuIdle
    /\ SfIdle
    /\ PlIdle
    /\ DlIdle
    /\ ps_pc = "call"
    /\ yaml_outpath \in YamlOutpaths
    /\ img_type \in ImgTypes
    /\ s3_list \in {Listing(places) : places \in SUBSET DOMAIN BucketFiles}
    /\ PsLocalsUnset

\* lines 27-48: the configuration, the type of scan, the listing
PsEnter ==
    /\ ps_pc = "call"
    /\ subkey_type' = IF img_type = ScanAnat THEN "anatomical_scan"
                      ELSE IF img_type = ScanRest THEN "functional_scan"
                      ELSE "unbound"
    /\ ps_n' = 1
    /\ ps_pc' = "loop"
    /\ UNCHANGED <<yaml_outpath, img_type, s3_list, ps_s3_dict, resource_dict,
                   yaml_file, ps_ret, ps_exc>>
    /\ UNCHANGED NotPs

\* lines 51-77: one file name of the list
PsFile ==
    /\ ps_pc = "loop"
    /\ ps_n <= Len(s3_list)
    /\ LET sfile == s3_list[ps_n]
           ssplit == split(sfile, <<"/">>)
           last == Len(ssplit)
       IN  IF last < 4
           THEN \* line 55: IndexError
                /\ ps_exc' = "IndexError"
                /\ ps_pc' = "raised"
                /\ UNCHANGED <<ps_n, ps_s3_dict, resource_dict>>
           ELSE LET key == <<ssplit[last - 3], ssplit[last - 2], ssplit[last - 1]>>
                IN  IF ~Contains(img_type, key[3])
                    THEN \* lines 75-76
                         /\ ps_n' = ps_n + 1
                         /\ UNCHANGED <<ps_pc, ps_s3_dict, resource_dict, ps_exc>>
                    ELSE IF key \notin DOMAIN ps_s3_dict
                    THEN IF subkey_type = "unbound"
                         THEN \* line 67: subkey_type has no value
                              /\ ps_exc' = "UnboundLocalError"
                              /\ ps_pc' = "raised"
                              /\ UNCHANGED <<ps_n, ps_s3_dict, resource_dict>>
                         ELSE \* lines 66-70
                              /\ resource_dict' = DictPut(<<>>, subkey_type, sfile)
                              /\ ps_s3_dict' = DictPut(ps_s3_dict, key, resource_dict')
                              /\ ps_n' = ps_n + 1
                              /\ UNCHANGED <<ps_pc, ps_exc>>
                    ELSE \* line 74: resource_dict is the one of the last new key
                         /\ ps_s3_dict' =
                                DictPut(ps_s3_dict, key,
                                    [r \in DOMAIN ps_s3_dict[key] \cup DOMAIN resource_dict |->
                                        IF r \in DOMAIN resource_dict THEN resource_dict[r]
                                        ELSE ps_s3_dict[key][r]])
                         /\ ps_n' = ps_n + 1
                         /\ UNCHANGED <<ps_pc, resource_dict, ps_exc>>
    /\ UNCHANGED <<yaml_outpath, img_type, s3_list, subkey_type, yaml_file, ps_ret>>
    /\ UNCHANGED NotPs

\* lines 79-94: the dictionary is written out; yaml_file is what a regular
\* file at yaml_outpath holds
PsReturn ==
    /\ ps_pc = "loop"
    /\ ps_n > Len(s3_list)
    /\ IF DOMAIN ps_s3_dict = {}
       THEN \* lines 79-82
            /\ ps_exc' = "Exception"
            /\ ps_pc' = "raised"
            /\ UNCHANGED <<yaml_file, ps_ret>>
       ELSE IF ~CanWrite(yaml_outpath)
       THEN \* line 85: open raises
            /\ ps_exc' = "IOError"
            /\ ps_pc' = "raised"
            /\ UNCHANGED <<yaml_file, ps_ret>>
       ELSE IF ~isfile(yaml_outpath)
       THEN \* lines 91-94
            /\ ps_exc' = "Exception"
            /\ ps_pc' = "raised"
            /\ UNCHANGED <<yaml_file, ps_ret>>
       ELSE \* lines 85-89
            /\ yaml_file' = ps_s3_dict
            /\ ps_ret' = <<yaml_outpath>>
            /\ ps_pc' = "done"
            /\ UNCHANGED ps_exc
    /\ UNCHANGED <<yaml_outpath, img_type, s3_list, ps_n, ps_s3_dict, subkey_type,
                   resource_dict>>
    /\ UNCHANGED NotPs

PsNext ==
    \/ PsEnter
    \/ PsFile
    \/ PsReturn

SpecSublist == PsInit /\ [][PsNext]_vars

(***************************************************************************)
(* populate_custom_data_dict, script_utils.py lines 200-248.  Identifiers  *)
(* are strings; PyNone stands for the value None.                          *)
(***************************************************************************)
PyNone == "None"

\* `not x` for a string or None
Falsy(x) == x = PyNone \/ x = ""

\* the number of calls made
MaxCalls == 2

\* lines 227-233: the session and the series the call files under
SessionOf(session_id) == IF Falsy(session_id) THEN "session_1" ELSE session_id

SeriesOf(series_id, default_series_label) ==
    IF ~Falsy(series_id) THEN series_id
    ELSE IF ~Falsy(default_series_label) THEN default_series_label
    ELSE "scan_1"

\* lines 225-248: the dictionary after the call
populate_custom_data_dict(d, filepath, part_id, session_id, series_id, site, resource, default_series_label) ==
    LET session == SessionOf(session_id)
        series == SeriesOf(series_id, default_series_label)
        \* lines 235-236
        d1 == IF part_id \notin DOMAIN d THEN DictPut(d, part_id, <<>>) ELSE d
        \* lines 237-238
        p1 == IF session \notin DOMAIN d1[part_id]
              THEN DictPut(d1[part_id], session, <<>>) ELSE d1[part_id]
        \* lines 239-240
        s1 == IF resource \notin DOMAIN p1[session]
              THEN DictPut(p1[session], resource, <<>>) ELSE p1[session]
        \* lines 241-242: the test is of site_id, the key set is "site_name"
        s2 == IF site \notin DOMAIN s1 THEN DictPut(s1, "site_name", site) ELSE s1
        \* lines 243-244
        r1 == IF series \notin DOMAIN s2[resource]
              THEN DictPut(s2[resource], series, filepath) ELSE s2[resource]
    IN  DictPut(d1, part_id, DictPut(p1, session, DictPut(s2, resource, r1)))

\* the arguments of a call
Filepaths == {"f1", "f2"}
PartIds == {"p1", "p2"}
SessionIds == {PyNone, "a"}
SeriesIds == {PyNone, "s"}
SiteIds == {"site1", "site2"}
Resources == {"anatomical_scan", "functional_scan"}
SeriesLabels == {PyNone, "anat_1"}

CdInit ==
    /\ FdIdle
    /\ PoIdle
    /\ PfIdle
    /\ ImIdle
    /\ GcIdle
    /\ SmIdle
    /\ NuIdle
    /\ SfIdle
    /\ PlIdle
    /\ DlIdle
    /\ PsIdle
    /\ data_dict = <<>>
    /\ cd_calls = <<>>
    /\ cd_before = <<>>

\* one call, lines 200-248
CdCall ==
    /\ Len(cd_calls) < MaxCalls
    /\ \E filepath \in Filepaths, part_id \in PartIds, session_id \in SessionIds,
          series_id \in SeriesIds, site \in SiteIds, resource \in Resources,
          default_series_label \in SeriesLabels :
          /\ data_dict' = populate_custom_data_dict(data_dict, filepath, part_id,
                              session_id, series_id, site, resource,
                              default_series_label)
          /\ cd_calls' = Append(cd_calls,
                              [filepath |-> filepath, part_id |-> part_id,
                               session_id |-> session_id, series_id |-> series_id,
                               site_id |-> site, resource |-> resource,
                               default_series_label |-> default_series_label])
    /\ cd_before' = data_dict
    /\ UNCHANGED NotCd

CdNext == CdCall

SpecCustomData == CdInit /\ [][CdNext]_vars

(***************************************************************************)
(* Properties of fd_jenkinson.                                             *)
(***************************************************************************)
\* the lines of the input file
Lines == ReadFile(fs, in_file)

\* the input paths without 'rel.rms' in them, and those with
TransformPaths == {PathPlain, PathNearRel}
RelRmsPaths == {PathRelRms, PathRelDir}

\* the call reads a transform file of N >= 1 rows of 12 values
TransformInput ==
    /\ in_file \in TransformPaths
    /\ \A k \in 1..Len(Lines) : Len(Lines[k]) = 12

\* the 4x4 matrix of a row of 12 values: the row's values, row by row, over [0, 0, 0, 1]
Homogeneous(row) ==
    << <<row[1], row[2], row[3], row[4]>>,
       <<row[5], row[6], row[7], row[8]>>,
       <<row[9], row[10], row[11], row[12]>>,
       <<0, 0, 0, 1>> >>

Invertible(row) == Det4(Homogeneous(row)) # 0

\* the lines a series X holds when written, one value per line
AsLines(values) == [k \in 1..Len(values) |-> <<values[k]>>]

\* C1 (the claim as stated): for every transform input of N >= 1 rows of 12 values
\* (each invertible where it is inverted, the output file one that can be written),
\* the call ends with a series of exactly N values whose first is 0.0, and the
\* output file holds the same N values
C1_SeriesOfLengthN ==
    (/\ TransformInput
     /\ \A k \in 1..(Len(Lines) - 1) : Invertible(Lines[k])
     /\ CanWrite(out_file)
     /\ pc \in {"done", "raised"})
    => /\ pc = "done"
       /\ Len(X) = Len(Lines)
       /\ X[1] = Zero
       /\ ReadFile(fs, out_file) = AsLines(X)

\* M is current * inverse(previous) - I: (M + I) * previous = current
C2_IsM(M, current, previous) ==
    \A r \in 1..4, c \in 1..4 :
        RAdd(RAdd(RMul(RAdd(M[r][1], RInt(eye4[r][1])), RInt(previous[1][c])),
                  RMul(RAdd(M[r][2], RInt(eye4[r][2])), RInt(previous[2][c]))),
             RAdd(RMul(RAdd(M[r][3], RInt(eye4[r][3])), RInt(previous[3][c])),
                  RMul(RAdd(M[r][4], RInt(eye4[r][4])), RInt(previous[4][c]))))
        = RInt(current[r][c])

\* value is the root of (rmax^2 / 5) * trace(A^T A) + b^T b for the M of two rows
C2_IsFD(value, current, previous) ==
    LET M == MatrixM(current, ExactInverse(previous))
        sumA == RAdd(RAdd(RAdd(RAdd(RSq(M[1][1]), RSq(M[1][2])), RSq(M[1][3])),
                          RAdd(RAdd(RSq(M[2][1]), RSq(M[2][2])), RSq(M[2][3]))),
                     RAdd(RAdd(RSq(M[3][1]), RSq(M[3][2])), RSq(M[3][3])))
        sumb == RAdd(RAdd(RSq(M[1][4]), RSq(M[2][4])), RSq(M[3][4]))
    IN  /\ C2_IsM(M, current, previous)
        /\ value.kind = "sqrt"
        /\ RMul(RInt(5), value.of)
             = RAdd(RMul(RMul(rmax.q, rmax.q), sumA), RMul(RInt(5), sumb))

\* C2 (the claim as stated, for every rmax): every emitted FD_i (i >= 1) is the
\* Jenkinson value of the transforms of timepoints i and i-1 alone, with the
\* factor rmax^2 / 5, and the previous-transform state is the current
\* transform after every timepoint, the first included: the initial identity is
\* in no emitted value
C2_DependsOnCurrentAndPrevious ==
    (TransformInput /\ pc \in {"loop", "return", "done"})
    => /\ Len(X) = IF i = 0 THEN 1 ELSE i
       /\ i >= 1 => T_rb_prev = Homogeneous(Lines[i])
       /\ \A k \in 2..Len(X) :
            Invertible(Lines[k - 1])
            => C2_IsFD(X[k], Homogeneous(Lines[k]), Homogeneous(Lines[k - 1]))

\* the same for a float rmax alone, where rmax * rmax / 5 is not rounded
FloatRmaxGivesJenkinson ==
    rmax.type = "float" => C2_DependsOnCurrentAndPrevious

\* a finished call on three rows that start away from the identity
C2_Witness ==
    /\ TransformInput
    /\ pc = "done"
    /\ Len(X) = 3
    /\ Lines[1] = RowTranslation
    /\ Lines[2] = RowQuarterTurn
    /\ X[2] # Zero
    /\ X[3].kind = "sqrt"

\* the input is the identity transform, repeated
IdentityInput ==
    /\ in_file \in TransformPaths
    /\ \A k \in 1..Len(Lines) : Lines[k] = RowIdentity

\* C3: on the identity repeated N times every displacement value is 0.0, for
\* each rmax, and the finished series holds N of them
C3_IdentityGivesZero ==
    (IdentityInput /\ pc \in {"loop", "return", "done"})
    => /\ \A k \in 1..Len(X) : X[k] = Zero
       /\ pc = "done" => Len(X) = Len(Lines)

\* a finished call on the identity repeated MaxN times, rmax other than the default
C3_Witness ==
    /\ IdentityInput
    /\ pc = "done"
    /\ Len(Lines) = MaxN
    /\ Len(X) = MaxN
    /\ rmax # PyFloat(rmax_default)

\* what a call has left when it ends
Left == [ret |-> ret, exc |-> exc,
         written |-> IF Exists(fs, out_file) THEN ReadFile(fs, out_file) ELSE <<>>]

\* C4: a second call with the same arguments ends as the first did: the same
\* return value, the same exception, the same output file
C4_SecondRunIdentical ==
    (calls = 2 /\ pc \in {"done", "raised"}) => Left = first

\* a second call that computed a series of three values, returned as an array
C4_Witness ==
    /\ calls = 2
    /\ pc = "done"
    /\ in_file = PathPlain
    /\ ret.kind = "array"
    /\ Len(ret.array) = 3
    /\ ret.array[3] # Zero

\* C5 (the claim as stated): no value is ever emitted for a timepoint whose
\* previous transform is singular: the call fails instead
C5_SingularNeverEmits ==
    (TransformInput /\ pc \in {"loop", "return", "done"})
    => \A k \in 2..Len(X) : Invertible(Lines[k - 1])

\* the input is marked as already-computed displacement values
RelRmsInput == in_file \in RelRmsPaths

\* the output path names the input file itself
OutputIsInput == FilePath(out_file) = FilePath(in_file)

\* C6: on an input whose path contains 'rel.rms' no matrix is parsed or computed,
\* the call returns the output path and the output file holds the lines of the
\* input file, which is left as it was; the copy is made whenever the output
\* file can be opened and is not the input file itself, and the only failures
\* are those of the copy (shutil.Error on the input file itself, IOError on a
\* file that cannot be opened)
C6_RelRmsPassedThrough ==
    /\ [](RelRmsInput
          => /\ pm_ = NoArray /\ pm = NoArray
             /\ T_rb = <<>> /\ T_rb_prev = <<>> /\ X = <<>>
             /\ pc \in {"call", "check", "done", "raised"}
             /\ pc = "raised" <=> exc \in {"IOError", "shutil.Error"}
             /\ pc # "raised" => exc = ""
             /\ exc = "shutil.Error" => (OutputIsInput /\ ret = NoReturn)
             /\ exc = "IOError" => (~CanWrite(out_file) /\ ret = NoReturn)
             /\ Exists(fs, out_file) => ReadFile(fs, out_file) = ReadFile(fs, in_file)
             /\ pc = "done" => /\ ret = [kind |-> "path", path |-> out_file, array |-> <<>>]
                               /\ CanWrite(out_file)
                               /\ ~OutputIsInput
                               /\ Exists(fs, out_file)
                               /\ ReadFile(fs, out_file) = ReadFile(fs, in_file))
    /\ [][(RelRmsInput /\ pc = "check" /\ CanWrite(out_file) /\ ~OutputIsInput)
            => pc' = "done"]_vars
    /\ [][RelRmsInput => ReadFile(fs, in_file)' = ReadFile(fs, in_file)]_vars

\* a finished call on a path whose directory holds 'rel.rms', out_array set
C6_Witness ==
    /\ in_file = PathRelDir
    /\ out_array
    /\ pc = "done"
    /\ out_file # in_file
    /\ ReadFile(fs, out_file) = <<RowIdentity, RowShort>>

\* C7: every 4x4 matrix the loop uses has last row [0, 0, 0, 1] and, above it, the
\* 12 values of its input row in order: after iteration i both T_rb and T_rb_prev
\* are that matrix of row i, and when the inverse raises T_rb is that of row i + 1
C7_LastRowAppended ==
    /\ (pc \in {"loop", "return", "done"} /\ i >= 1)
       => /\ T_rb = Homogeneous(Lines[i])
          /\ T_rb_prev = T_rb
          /\ T_rb[4] = <<0, 0, 0, 1>>
    /\ (pc = "raised" /\ exc = "LinAlgError")
       => /\ T_rb = Homogeneous(Lines[i + 1])
          /\ T_rb_prev = Homogeneous(Lines[i])
          /\ T_rb[4] = <<0, 0, 0, 1>> /\ T_rb_prev[4] = <<0, 0, 0, 1>>

\* the loop has used the matrix of a row that is not symmetric in its 3x4 part
C7_Witness ==
    /\ pc = "loop"
    /\ i = 2
    /\ Lines[2] = RowTranslation
    /\ T_rb[1] = <<1, 0, 0, 3>>
    /\ T_rb[3] = <<0, 0, 1, 4>>

\* some line of the input does not hold 12 values
MalformedInput ==
    /\ in_file \in TransformPaths
    /\ \E k \in 1..Len(Lines) : Len(Lines[k]) # 12

\* C8: on an input that is not rows of 12 values the call never returns and never
\* writes: it is raising, or on its way to the statement that raises (genfromtxt
\* on differing column counts, pm_.shape[1] on one row, reshape(4, 4) otherwise),
\* and no value has been appended to the series
C8_MalformedInputFails ==
    MalformedInput
    => /\ pc \in {"call", "check", "pad", "loop", "raised"}
       /\ ret = NoReturn
       /\ ~Exists(fs, out_file)
       /\ Len(X) <= 1
       /\ pc = "loop" => (i = 0 /\ pm.shape[2] # 16)
       /\ pc = "pad" => (Len(pm_.shape) < 2 \/ pm_.shape[2] # 12)
       /\ pc = "raised" => exc \in {raise_smart_exception, "IndexError", "ValueError"}

\* rows of 11 values each: the call has raised at reshape(4, 4)
C8_Witness ==
    /\ MalformedInput
    /\ Len(Lines) >= 2
    /\ \A k \in 1..Len(Lines) : Lines[k] = RowShort
    /\ pc = "raised"
    /\ exc = "ValueError"

(***************************************************************************)
(* Properties of calculate_percent_outliers.                               *)
(***************************************************************************)
RLe(p, q) == ~RLt(q, p)

\* C9: on a non-empty input nothing is raised, percent_outliers is in [0, 1] and
\* IQR >= 0, and these are the two values returned
C9_PercentAndIqrInRange ==
    values_list # <<>>
    => /\ po_pc # "raised"
       /\ po_pc \in {"quartiles", "thresholds", "counted", "done"} => RLe(RInt(0), IQR)
       /\ po_pc \in {"counted", "done"}
            => RLe(RInt(0), percent_outliers) /\ RLe(percent_outliers, RInt(1))
       /\ po_pc = "done" => po_ret = <<percent_outliers, IQR>>

\* a returned pair with a positive IQR and some, not all, values outliers
C9_Witness ==
    /\ po_pc = "done"
    /\ RLt(RInt(0), po_ret[2])
    /\ RLt(RInt(0), po_ret[1])
    /\ RLt(po_ret[1], RInt(1))

\* the list with the values at places j and j + 1 exchanged
Exchanged(values, j) ==
    [k \in 1..Len(values) |->
        IF k = j THEN values[j + 1] ELSE IF k = j + 1 THEN values[j] ELSE values[k]]

\* the places of the input whose value is strictly beyond a threshold
OutlierPlaces ==
    {k \in 1..Len(values_list) :
        \/ RLt(RInt(values_list[k]), RSub(first_qr, RMul(Rat(3, 2), IQR)))
        \/ RLt(RAdd(third_qr, RMul(Rat(3, 2), IQR)), RInt(values_list[k]))}

\* C10: the outliers counted are the input values strictly below Q1 - 1.5 IQR or
\* strictly above Q3 + 1.5 IQR, percent_outliers is their number over the size M
\* of the input, and exchanging two neighbouring input values (so any reordering)
\* gives the same result
C10_OutlierCountAndOrder ==
    (po_pc \in {"counted", "done"})
    => /\ IQR = RSub(third_qr, first_qr)
       /\ Len(total_outliers) = Cardinality(OutlierPlaces)
       /\ percent_outliers = Rat(Cardinality(OutlierPlaces), Len(values_list))
       /\ \A j \in 1..(Len(values_list) - 1) :
             calculate_percent_outliers(Exchanged(values_list, j))
               = <<percent_outliers, IQR>>

\* an unsorted input with one outlier and four values equal to both thresholds
C10_Witness ==
    /\ po_pc = "done"
    /\ values_list = <<1, 0, 0, 0, 0>>
    /\ third_qr_threshold = RInt(0)
    /\ first_qr_threshold = RInt(0)
    /\ po_ret[1] = Rat(1, 5)

\* C11: for the vector [1, 2, 3, 4, 5, 100] the call returns, 100 and only 100
\* is an outlier, percent_outliers is 1/6 and IQR is 2.5
C11_VectorFlagsOnly100 ==
    values_list = ScalarVector =>
        /\ po_pc # "raised"
        /\ po_pc \in {"counted", "done"} => total_outliers = <<100>>
        /\ po_pc = "done" => po_ret = <<Rat(1, 6), Rat(5, 2)>>

C11_Witness == values_list = ScalarVector /\ po_pc = "done" /\ po_ret # <<>>

\* the call is past lines 47-48
QuartilesTaken == po_pc \in {"quartiles", "thresholds", "counted", "done"}

\* the percentile of s at p quarters under linear interpolation between the
\* closest ranks (type 7): with (n - 1) * p = 4 * a + r, the values of ranks
\* a + 1 and a + 2 weighted (4 - r) / 4 and r / 4
Type7(s, p) ==
    LET h == (Len(s) - 1) * p
        a == h \div 4
        r == h % 4
    IN  Rat((4 - r) * s[a + 1] + r * s[IF r = 0 THEN a + 1 ELSE a + 2], 4)

\* C12 as stated: the quartiles of [1, 2, 3, 4, 5, 100] are Q1 = 2 and Q3 = 4.5
C12_QuartilesTwoAndFourAndAHalf ==
    (values_list = ScalarVector /\ QuartilesTaken) =>
        (first_qr = RInt(2) /\ third_qr = Rat(9, 2))

\* C12: the quartiles are the 25th and 75th percentiles of the values in
\* ascending order under linear interpolation (type 7), and for the vector
\* [1, 2, 3, 4, 5, 100] they are Q1 = 2.25 and Q3 = 4.75
C12_QuartilesType7 ==
    QuartilesTaken =>
        /\ first_qr = Type7(sorted_values, 1)
        /\ third_qr = Type7(sorted_values, 3)
        /\ values_list = ScalarVector =>
               (first_qr = Rat(9, 4) /\ third_qr = Rat(19, 4))

C12_Witness ==
    /\ values_list = ScalarVector
    /\ po_pc = "quartiles"
    /\ first_qr = Rat(9, 4)
    /\ third_qr = Rat(19, 4)

\* C13: a call with an empty vector ends in an exception and never returns a
\* (percent_outliers, IQR) pair
C13_EmptyVectorFails ==
    values_list = <<>> =>
        /\ po_pc \in {"call", "sorted", "raised"}
        /\ po_ret = <<>>
        /\ po_pc = "raised" => po_exc # ""

C13_Witness == values_list = <<>> /\ po_pc = "raised" /\ po_exc # ""

\* the values of the lines that float() takes, in the order of the lines
RECURSIVE Parsed(_)
Parsed(ls) ==
    IF ls = <<>> THEN <<>>
    ELSE (IF float(Head(ls)).ok THEN <<float(Head(ls)).val>> ELSE <<>>)
             \o Parsed(Tail(ls))

\* C14: pass_floats raises on no text; the values collected are those of the
\* lines that parse, one for each, in the order of the lines, the other
\* lines being passed over, so that they are no more than the lines
C14_LenientLineByLine ==
    /\ pf_pc \in {"idle", "call", "loop", "done"}
    /\ pf_pc = "loop" => pf_values = Parsed(SubSeq(pf_lines, 1, pf_l))
    /\ pf_pc = "done" =>
          /\ pf_ret = Parsed(pf_lines)
          /\ Len(pf_ret) <= Len(pf_lines)
          /\ \A k \in 1..Len(pf_ret) : pf_ret[k].kind \in {"finite", "nan", "inf"}

C14_Witness ==
    /\ pf_pc = "done"
    /\ Len(pf_lines) = 3
    /\ ~float(pf_lines[1]).ok
    /\ float(pf_lines[2]).ok
    /\ Len(pf_ret) = 2

\* C15 as stated: the four-line text "3.5", "-- warning --", "2.1", "NaN"
\* yields exactly [3.5, 2.1]
C15_WarningAndNaNDropped ==
    (output_string = WarningText /\ pf_pc = "done") =>
        pf_ret = <<Finite(Rat(35, 10)), Finite(Rat(21, 10))>>

\* C15: the four-line text "3.5", "-- warning --", "2.1", "NaN" yields
\* exactly [3.5, 2.1, nan]: the non-numeric line is dropped and the line
\* "NaN" parses as the float nan
C15_WarningDroppedNaNKept ==
    (output_string = WarningText /\ pf_pc = "done") =>
        pf_ret = <<Finite(Rat(35, 10)), Finite(Rat(21, 10)), NaN>>

C15_Witness ==
    /\ output_string = WarningText
    /\ pf_pc = "done"
    /\ Len(pf_lines) = 4
    /\ Len(pf_ret) = 3

\* the time series of the voxels the mask includes
Included == MaskedVoxels(func_reorient.data, func_mask.data)

IsConstant(ts) == \A t \in 1..Len(ts) : ts[t] = ts[1]

\* C16: with a single voxel in the mask, its time series not constant,
\* global_correlation returns 1.0
C16_SingleVoxelGivesOne ==
    (gc_pc = "done" /\ Len(Included) = 1 /\ ~IsConstant(Included[1])) =>
        gc_ret = <<FromRat(RInt(1))>>

C16_Witness ==
    /\ gc_pc = "done"
    /\ Included = <<<<1, 2, 3, 4>>>>
    /\ Len(avg_ts) = 4
    /\ gc_ret = <<FromRat(RInt(1))>>

\* C17: with a voxel of constant time series in the mask, global_correlation
\* returns no value that an undefined z-score has gone into: a value it
\* returns is a number, not nan
C17_ZeroVarianceNotPropagated ==
    (gc_pc = "done" /\ \E v \in 1..Len(Included) : IsConstant(Included[v])) =>
        ~gc_ret[1].nan

\* the mean of the squares less the square of the mean
MeanSquareLessSquareMean(ts) ==
    LET n  == Len(ts)
        sq == [t \in 1..n |-> ts[t] * ts[t]]
    IN  RSub(Rat(Sum(sq), n), RMul(Rat(Sum(ts), n), Rat(Sum(ts), n)))

\* x is the square root of the rational q >= 0
IsSqrtOf(x, q) ==
    /\ ~x.nan
    /\ Times(x, x) = FromRat(q)
    /\ \A t \in x.terms : RLt(RInt(0), t[2])

\* C18: the map returned has the spatial extent of the input, 0 in every
\* cell outside the mask and, in every cell inside it, the population
\* standard deviation of the voxel's time series
C18_StdMapOfMaskedVoxels ==
    sm_pc = "done" =>
        /\ sm_ret[1].shape = func_reorient.shape
        /\ Len(sm_ret[1].data) = Size(func_reorient.shape)
        /\ \A v \in 1..Len(sm_ret[1].data) :
              IF func_mask.data[v] = 0
              THEN sm_ret[1].data[v] = FromRat(RInt(0))
              ELSE IsSqrtOf(sm_ret[1].data[v],
                            MeanSquareLessSquareMean(func_reorient.data[v]))

C18_Witness ==
    /\ sm_pc = "done"
    /\ Size(func_reorient.shape) = 3
    /\ func_mask.data = <<1, 0, 1>>
    /\ func_reorient.data[2] = <<1, 2, 3, 4>>
    /\ func_reorient.data[3] = <<1, 3, 1, 3>>
    /\ sm_ret[1].data[2] = FromRat(RInt(0))
    /\ sm_ret[1].data[3] = FromRat(RInt(1))

\* the values of the cells of a map that are not 0, in row-major order
NonzeroValues(map) ==
    LET ps == NonzeroPlaces(map.data, 1)
    IN  [n \in 1..Len(ps) |-> map.data[ps[n]]]

\* s, ascending, with the value x put before the first value above it
RECURSIVE InsertValue(_, _)
InsertValue(s, x) ==
    IF s = <<>> THEN <<x>>
    ELSE IF Greater(Head(s), x) THEN <<x>> \o s
    ELSE <<Head(s)>> \o InsertValue(Tail(s), x)

RECURSIVE Ascending(_)
Ascending(s) ==
    IF s = <<>> THEN <<>>
    ELSE InsertValue(Ascending(SubSeq(s, 1, Len(s) - 1)), s[Len(s)])

\* the value at index floor(0.98 * count) of the ascending sorted values
\* that are not 0, count being their number
ValueCutoff(map) ==
    LET vals == Ascending(NonzeroValues(map))
    IN  vals[(98 * Len(vals)) \div 100 + 1]

\* the average of the values of the cells of the map that the mask selects
MeanOfSelected(map, mask) ==
    LET sel == MaskedVoxels(map.data, mask.data)
    IN  OverCount(Total(sel), Len(sel))

\* C19: the cutoff is the value at index floor(0.98 * count) of the
\* ascending sorted non-zero standard-deviation values of the map, the mask
\* is the map thresholded at that cutoff, and the value returned is the
\* average of the standard deviations of the voxels the mask selects
C19_CutoffAndMeanOfStdValues ==
    nu_pc = "done" =>
        /\ cutoff = ValueCutoff(temporal_std_map)
        /\ estimated_nuisance_mask = create_threshold_mask(temporal_std_map, cutoff)
        /\ nu_ret = <<MeanOfSelected(temporal_std_map, estimated_nuisance_mask)>>

\* the factors a map is scaled by
Factors == {Rat(1, 2), RInt(2), RInt(3)}

ScaleReal(x, k) == IF x.nan THEN np_nan ELSE Real(SScale(x.terms, k))

ScaleMap(map, k) ==
    [shape |-> map.shape,
     data  |-> [v \in 1..Len(map.data) |-> ScaleReal(map.data[v], k)]]

\* C20: the result for the map with every value scaled by k > 0 is k times
\* the result for the map
C20_ScalingScalesResult ==
    nu_pc = "done" =>
        \A k \in Factors :
            LET scaled == calc_estimated_csf_nuisance(ScaleMap(temporal_std_map, k))
            IN  /\ scaled.raised = ""
                /\ scaled.val = ScaleReal(nu_ret[1], k)

\* the number of cells of the map that are not 0
NonzeroCount == Len(NonzeroPlaces(temporal_std_map.data, 1))

\* C21: with fewer than about 50 cells that are not 0, none included,
\* calc_estimated_csf_nuisance fails and never returns a value
C21_TooFewVoxelsFails ==
    NonzeroCount < 50 => (nu_pc # "done" /\ nu_ret = <<>>)

\* the voxel's mean over the whole-brain mean, times the voxel's std over
\* the nuisance mean std
SfsOf(voxel_mean, voxel_std) ==
    Product(Quotient(voxel_mean, total_func_mean),
            Quotient(voxel_std, sf_nuisance_mean_std))

\* C22: a call of sfs_timeseries returns one value for each voxel of the
\* mask, in the order of the mask, each (voxel_mean / whole_brain_mean) *
\* (voxel_std / nuisance_mean_std)
C22_OneSfsValuePerVoxel ==
    (sf_pc \in {"done", "raised"} /\ sf_exc # "IndexError") =>
        /\ sf_pc = "done"
        /\ Len(sf_ret[1]) = Len(MaskedVoxels(func_mean.data, func_mask.data))
        /\ \A n \in 1..Len(sf_ret[1]) :
              sf_ret[1][n] = SfsOf(masked_func_mean[n], masked_tstd[n])

\* the names between the "/" of a path
Components(path) == split(path, <<"/">>)

\* a path /d/site/participant/session/scan/file
InSiteFolder(path) ==
    /\ Len(Components(path)) = 7
    /\ Components(path)[1] = <<>>
    /\ Components(path)[2] = Rootdir

\* the participants of inclusion_list that have an anatomical or functional
\* file among the paths
IncludedParticipants ==
    {Components(filepath_list[k])[4] :
        k \in {j \in 1..Len(filepath_list) :
                  /\ InList(Components(filepath_list[j])[4], inclusion_list)
                  /\ Resource(Components(filepath_list[j])[6],
                              Components(filepath_list[j])[7]) # ""}}

\* a non-empty inclusion_list was given
InclusionGiven == inclusion = "unbound" /\ inclusion_list # <<>>

\* C23: given a non-empty inclusion_list and paths of the site folder, a call
\* of parse_raw_data_list returns a dictionary whose keys are the
\* participants of inclusion_list that have an anatomical or functional file
C23_OnlyIncludedParticipants ==
    (/\ InclusionGiven
     /\ pl_pc \in {"done", "raised"}
     /\ \A k \in 1..Len(filepath_list) : InSiteFolder(filepath_list[k])
     /\ IncludedParticipants # {}) =>
        (pl_pc = "done" /\ DOMAIN pl_ret[1] = IncludedParticipants)

(***************************************************************************)
(* Properties of dl_subj_from_s3.                                          *)
(***************************************************************************)
\* the entry the S3 dictionary had for a key when it was loaded
LoadedEntry(k) == DictOf(S3Entries)[k]

\* the call returned and subj_idx was between 1 and the number of keys
DlInRange ==
    /\ dl_pc = "done"
    /\ subj_idx >= 1
    /\ subj_idx <= Cardinality(DOMAIN s3_dict)

\* the paths of a list
Listed(list) == {list[n] : n \in DOMAIN list}

\* C24: dl_subj_from_s3 with 1 <= subj_idx <= number of keys returns a
\* dictionary with exactly one entry, keyed by the subj_idx-th of the sorted
\* keys, whose filepaths are the S3 paths with bucket_prefix replaced by
\* local_prefix; exactly those S3 paths are asked for, once each, each
\* paired with its own local path.
C24_ReturnsTheIndexedEntry ==
    DlInRange =>
        /\ Len(dl_ret) = 1
        /\ \E k \in DOMAIN s3_dict :
              /\ DOMAIN dl_ret[1] = {k}
              /\ Cardinality({j \in DOMAIN s3_dict : KeyLess(j, k)}) = subj_idx - 1
              /\ DOMAIN dl_ret[1][k] = DOMAIN LoadedEntry(k)
              /\ \A r \in DOMAIN LoadedEntry(k) :
                    dl_ret[1][k][r] = replace(LoadedEntry(k)[r], bucket_prefix, local_prefix)
              /\ Len(downloads) = 1
              /\ Listed(downloads[1][1]) = {LoadedEntry(k)[r] : r \in DOMAIN LoadedEntry(k)}
              /\ Len(downloads[1][1]) = Cardinality(DOMAIN LoadedEntry(k))
              /\ Len(downloads[1][2]) = Len(downloads[1][1])
              /\ \A n \in DOMAIN downloads[1][1] :
                    downloads[1][2][n] =
                        replace(downloads[1][1][n], bucket_prefix, local_prefix)

\* the second of three keys was asked for: the entry of participant p1's
\* rest scan, with both of its paths under the local prefix
C24_Witness ==
    /\ DlInRange
    /\ subj_idx = 2
    /\ Cardinality(DOMAIN s3_dict) = 3
    /\ dl_ret = << DictPut(<<>>, <<Part1, Sess, ScanRest>>,
                      [functional_scan |-> <<"/", "l", "/", "p", "1", "/", "a", "/", "r", "e", "s", "t", "/", "/", "l">>,
                       anatomical_scan |-> <<"/", "l", "/", "p", "1", "/", "a", "/", "a", "n", "a", "t", "/", "x">>]) >>
    /\ downloads[1][1] = <<S3Rest1, S3Anat1>>
    /\ downloads[1][2] = <<<<"/", "l", "/", "p", "1", "/", "a", "/", "r", "e", "s", "t", "/", "/", "l">>, <<"/", "l", "/", "p", "1", "/", "a", "/", "a", "n", "a", "t", "/", "x">>>>

(***************************************************************************)
(* Properties of pull_S3_sublist.                                          *)
(***************************************************************************)
\* the participant, session and scan of a file name: the three components
\* before the last
KeyOfPath(path) ==
    LET cs == Components(path)
    IN  <<cs[Len(cs) - 3], cs[Len(cs) - 2], cs[Len(cs) - 1]>>

\* C25: every key (participant, session, scan) of the dictionary of
\* pull_S3_sublist holds only file names whose own components are that
\* participant, session and scan, during the loop and in the file written.
C25_PathsUnderTheirOwnKey ==
    /\ \A key \in DOMAIN ps_s3_dict : \A r \in DOMAIN ps_s3_dict[key] :
          KeyOfPath(ps_s3_dict[key][r]) = key
    /\ \A key \in DOMAIN yaml_file : \A r \in DOMAIN yaml_file[key] :
          KeyOfPath(yaml_file[key][r]) = key

(***************************************************************************)
(* Properties of populate_custom_data_dict.                                *)
(***************************************************************************)
\* the identifiers (participant, session, resource, series) a call files
\* its path under, with the defaults of a missing session and series
IdsOf(call) ==
    <<call.part_id,
      IF call.session_id \in {PyNone, ""} THEN "session_1" ELSE call.session_id,
      call.resource,
      IF call.series_id \notin {PyNone, ""} THEN call.series_id
      ELSE IF call.default_series_label \notin {PyNone, ""}
           THEN call.default_series_label
      ELSE "scan_1">>

\* the first call with the identifiers of call n
FirstWith(n) ==
    CHOOSE m \in 1..n :
        /\ IdsOf(cd_calls[m]) = IdsOf(cd_calls[n])
        /\ \A j \in 1..(m - 1) : IdsOf(cd_calls[j]) # IdsOf(cd_calls[n])

\* every call's identifiers hold the path of the first call with them
FirstPathKept ==
    \A n \in DOMAIN cd_calls :
        LET ids == IdsOf(cd_calls[n])
        IN  /\ ids[1] \in DOMAIN data_dict
            /\ ids[2] \in DOMAIN data_dict[ids[1]]
            /\ ids[3] \in DOMAIN data_dict[ids[1]][ids[2]]
            /\ ids[4] \in DOMAIN data_dict[ids[1]][ids[2]][ids[3]]
            /\ data_dict[ids[1]][ids[2]][ids[3]][ids[4]] = cd_calls[FirstWith(n)].filepath

\* the last call had the identifiers of an earlier call
LastIsLater ==
    /\ Len(cd_calls) >= 2
    /\ FirstWith(Len(cd_calls)) < Len(cd_calls)

\* the last call repeated the arguments of the call before it
LastIsRepeat ==
    /\ Len(cd_calls) >= 2
    /\ cd_calls[Len(cd_calls)] = cd_calls[Len(cd_calls) - 1]

\* a repeated call changes nothing
RepeatIsIdempotent == LastIsRepeat => data_dict = cd_before

\* C26: populate_custom_data_dict never overwrites a filepath: the path
\* under (participant, session, resource, series), with the defaults
\* session_1 and default_series_label or scan_1, is that of the first call
\* with those identifiers, and a later call with them leaves the whole
\* dictionary as it was.
C26_FirstPathKeptAndRestUnchanged ==
    /\ FirstPathKept
    /\ LastIsLater => data_dict = cd_before

====
